---------------------------- MODULE Spec2Model ----------------------------
(***************************************************************************)
(* Tensor extension metadata of sparrow-extensions: the fixed-shape and    *)
(* variable-shape metadata values, their validators, their JSON encoders   *)
(* and decoders.                                                           *)
(*                                                                         *)
(* A text is a sequence of one-character strings.  An optional field is a  *)
(* record [has, val] (std::optional: has_value() and the contained value). *)
(* Two builds of the fixed-shape translation unit exist in the sources:    *)
(* src/src/fixed_shape_tensor.cpp (hand-written scanner, sort-based        *)
(* permutation check) and src/unnamed/part_004 (simdjson, seen-marker      *)
(* permutation check).  Both are modelled.  The variable-shape translation *)
(* unit is the second half of src/src/uuid_array.cpp.  The tensor arrays   *)
(* are modelled by what they own: the arrow proxy of their storage (name   *)
(* and key/value metadata), the sizes of the storage, and the metadata.    *)
(***************************************************************************)
EXTENDS Integers, Sequences, FiniteSets, TLC

VARIABLES kind, meta, text, res, chk, pc, base, bres, proxy, tensor

vars == <<kind, meta, text, res, chk, pc, base, bres, proxy, tensor>>

(***************************************************************************)
(* Bounds                                                                  *)
(***************************************************************************)
\* longest shape / dim_names / permutation / uniform_shape vector enumerated
MaxRank == 2

\* longest run of whitespace inserted at one token boundary
MaxWsRun == 2

\* the longest key/value metadata list of an arrow proxy
MaxPairs == 2

\* the largest number of flattened values handed to a constructor
MaxValues == 4

\* the largest index given to at()
MaxIndex == 5

(***************************************************************************)
(* Characters and optionals                                                *)
(***************************************************************************)
DQ == "\""

BS == "\\"

Some(v) == [has |-> TRUE, val |-> v]

None == [has |-> FALSE, val |-> <<>>]

\* std::optional<std::int32_t>{} : an absent uniform_shape entry
NullDim == [has |-> FALSE, val |-> 0]

Dim(n) == [has |-> TRUE, val |-> n]

SeqsUpTo(S, n) == UNION {[1..k -> S] : k \in 0..n}

Opt(S) == {None} \cup {Some(v) : v \in S}

DigitChars == <<"0", "1", "2", "3", "4", "5", "6", "7", "8", "9">>

IsDigit(c) == \E d \in 1..10 : DigitChars[d] = c

DigitVal(c) == (CHOOSE d \in 1..10 : DigitChars[d] = c) - 1

\* std::isspace in the "C" locale (vertical tab has no TLA+ escape and never
\* occurs in a text of this model)
IsSpace(c) == c \in {" ", "\t", "\n", "\r", "\f"}

\* whitespace of RFC 8259, the only whitespace simdjson skips
IsJsonSpace(c) == c \in {" ", "\t", "\n", "\r"}

RECURSIVE NatToStr(_)
NatToStr(n) ==
    IF n < 10 THEN <<DigitChars[n + 1]>>
    ELSE NatToStr(n \div 10) \o <<DigitChars[(n % 10) + 1]>>

\* std::to_string(std::int64_t) and operator<<(std::ostream&, std::int64_t)
to_string(n) == IF n < 0 THEN <<"-">> \o NatToStr(-n) ELSE NatToStr(n)

Chars(str) ==
    CASE str = "shape" -> <<"s", "h", "a", "p", "e">>
      [] str = "dim_names" -> <<"d", "i", "m", "_", "n", "a", "m", "e", "s">>
      [] str = "permutation" ->
            <<"p", "e", "r", "m", "u", "t", "a", "t", "i", "o", "n">>
      [] str = "uniform_shape" ->
            <<"u", "n", "i", "f", "o", "r", "m", "_", "s", "h", "a", "p", "e">>
      [] str = "null" -> <<"n", "u", "l", "l">>
      [] str = "true" -> <<"t", "r", "u", "e">>
      [] str = "false" -> <<"f", "a", "l", "s", "e">>

Quoted(s) == <<DQ>> \o s \o <<DQ>>

(***************************************************************************)
(* Validators                                                              *)
(***************************************************************************)
RECURSIVE InsertSorted(_, _)
InsertSorted(s, x) ==
    IF s = <<>> THEN <<x>>
    ELSE IF x <= Head(s) THEN <<x>> \o s
    ELSE <<Head(s)>> \o InsertSorted(Tail(s), x)

\* std::ranges::sort on a copy of the permutation
RECURSIVE sort(_)
sort(s) == IF s = <<>> THEN <<>> ELSE InsertSorted(sort(Tail(s)), Head(s))

\* fixed_shape_tensor_extension::metadata::is_valid, sort-based build
fixed_is_valid(m) ==
    IF Len(m.shape) = 0 THEN FALSE
    ELSE IF \E i \in 1..Len(m.shape) : m.shape[i] <= 0 THEN FALSE
    ELSE IF m.dim_names.has /\ Len(m.dim_names.val) # Len(m.shape) THEN FALSE
    ELSE IF m.permutation.has
         THEN IF Len(m.permutation.val) # Len(m.shape) THEN FALSE
              ELSE LET sorted_perm == sort(m.permutation.val)
                   IN  \A i \in 1..Len(sorted_perm) : sorted_perm[i] = i - 1
         ELSE TRUE

\* a marker loop that forgets to test the marker before setting it
RECURSIVE seen_loop_nodup(_, _, _)
seen_loop_nodup(perm, i, seen) ==
    IF i > Len(perm) THEN TRUE
    ELSE LET idx == perm[i]
         IN  IF idx < 0 \/ idx >= Len(perm) THEN FALSE
             ELSE seen_loop_nodup(perm, i + 1, [seen EXCEPT ![idx + 1] = TRUE])

\* the loop over perm with the std::vector<bool> seen marker; seen is indexed
\* from 1 here, so seen[idx + 1] is the code's seen[idx]
RECURSIVE seen_loop(_, _, _)
seen_loop(perm, i, seen) ==
    IF i > Len(perm) THEN TRUE
    ELSE LET idx == perm[i]
         IN  IF idx < 0 \/ idx >= Len(perm) \/ seen[idx + 1] THEN FALSE
             ELSE seen_loop(perm, i + 1, [seen EXCEPT ![idx + 1] = TRUE])

\* fixed_shape_tensor_extension::metadata::is_valid, seen-marker build
fixed_is_valid_seen(m) ==
    IF Len(m.shape) = 0 \/ ~(\A i \in 1..Len(m.shape) : m.shape[i] > 0)
    THEN FALSE
    ELSE IF m.dim_names.has /\ Len(m.dim_names.val) # Len(m.shape) THEN FALSE
    ELSE IF m.permutation.has
         THEN IF Len(m.permutation.val) # Len(m.shape) THEN FALSE
              ELSE seen_loop(m.permutation.val, 1,
                             [j \in 1..Len(m.permutation.val) |-> FALSE])
         ELSE TRUE

\* a marker loop that reads the marker before it compares idx with the
\* bounds
RECURSIVE seen_indexes_unchecked(_, _, _)
seen_indexes_unchecked(perm, i, seen) ==
    IF i > Len(perm) THEN {}
    ELSE LET idx == perm[i]
         IN  {idx} \cup
             (IF idx < 0 \/ idx >= Len(perm) \/ seen[idx + 1] THEN {}
              ELSE seen_indexes_unchecked(perm, i + 1,
                                          [seen EXCEPT ![idx + 1] = TRUE]))

\* the values idx with which the loop indexes seen: || evaluates seen[idx]
\* only after idx < 0 and idx >= perm.size() were found false
RECURSIVE seen_indexes(_, _, _)
seen_indexes(perm, i, seen) ==
    IF i > Len(perm) THEN {}
    ELSE LET idx == perm[i]
         IN  IF idx < 0 \/ idx >= Len(perm) THEN {}
             ELSE {idx} \cup
                  (IF seen[idx + 1] THEN {}
                   ELSE seen_indexes(perm, i + 1,
                                     [seen EXCEPT ![idx + 1] = TRUE]))

\* the values with which a call of the seen-marker is_valid indexes seen
fixed_seen_indexed(m) ==
    IF Len(m.shape) = 0 \/ ~(\A i \in 1..Len(m.shape) : m.shape[i] > 0)
    THEN {}
    ELSE IF m.dim_names.has /\ Len(m.dim_names.val) # Len(m.shape) THEN {}
    ELSE IF m.permutation.has /\ Len(m.permutation.val) = Len(m.shape)
    THEN seen_indexes(m.permutation.val, 1,
                      [j \in 1..Len(m.permutation.val) |-> FALSE])
    ELSE {}

\* get_ndim looking at the fields in the reverse order
get_ndim_reversed(m) ==
    IF m.uniform_shape.has THEN Some(Len(m.uniform_shape.val))
    ELSE IF m.permutation.has THEN Some(Len(m.permutation.val))
    ELSE IF m.dim_names.has THEN Some(Len(m.dim_names.val))
    ELSE None

\* variable_shape_tensor_extension::metadata::get_ndim
get_ndim(m) ==
    IF m.dim_names.has THEN Some(Len(m.dim_names.val))
    ELSE IF m.permutation.has THEN Some(Len(m.permutation.val))
    ELSE IF m.uniform_shape.has THEN Some(Len(m.uniform_shape.val))
    ELSE None

\* is_valid without the test for an empty permutation
variable_is_valid_noempty(m) ==
    LET expected_ndim == get_ndim(m)
    IN  IF expected_ndim.has
           /\ (\/ (m.dim_names.has /\ Len(m.dim_names.val) # expected_ndim.val)
               \/ (m.permutation.has
                   /\ Len(m.permutation.val) # expected_ndim.val)
               \/ (m.uniform_shape.has
                   /\ Len(m.uniform_shape.val) # expected_ndim.val))
        THEN FALSE
        ELSE IF m.permutation.has
                /\ ~seen_loop(m.permutation.val, 1,
                              [j \in 1..Len(m.permutation.val) |-> FALSE])
        THEN FALSE
        ELSE IF m.uniform_shape.has
                /\ \E i \in 1..Len(m.uniform_shape.val) :
                      m.uniform_shape.val[i].has
                      /\ m.uniform_shape.val[i].val <= 0
        THEN FALSE
        ELSE TRUE

\* variable_shape_tensor_extension::metadata::is_valid
variable_is_valid(m) ==
    LET expected_ndim == get_ndim(m)
    IN  IF expected_ndim.has
           /\ (\/ (m.dim_names.has /\ Len(m.dim_names.val) # expected_ndim.val)
               \/ (m.permutation.has
                   /\ Len(m.permutation.val) # expected_ndim.val)
               \/ (m.uniform_shape.has
                   /\ Len(m.uniform_shape.val) # expected_ndim.val))
        THEN FALSE
        ELSE IF m.permutation.has
                /\ (\/ Len(m.permutation.val) = 0
                    \/ ~seen_loop(m.permutation.val, 1,
                                  [j \in 1..Len(m.permutation.val) |-> FALSE]))
        THEN FALSE
        ELSE IF m.uniform_shape.has
                /\ \E i \in 1..Len(m.uniform_shape.val) :
                      m.uniform_shape.val[i].has
                      /\ m.uniform_shape.val[i].val <= 0
        THEN FALSE
        ELSE TRUE

(***************************************************************************)
(* Encoders                                                                *)
(***************************************************************************)
\* the element loops of to_json: a comma before every element but the first
RECURSIVE join_commas(_, _)
join_commas(items, i) ==
    IF i > Len(items) THEN <<>>
    ELSE (IF i > 1 THEN <<",">> ELSE <<>>) \o items[i]
         \o join_commas(items, i + 1)

\* an element loop that puts a space after each comma
RECURSIVE serialize_array_spaced(_)
serialize_array_spaced(items) ==
    IF Len(items) = 0 THEN <<"[", "]">>
    ELSE IF Len(items) = 1 THEN <<"[">> \o items[1] \o <<"]">>
    ELSE <<"[">> \o items[1] \o <<",", " ">>
         \o Tail(serialize_array_spaced(Tail(items)))

\* the serialize_array lambda of to_json, given the formatted items
serialize_array(items) == <<"[">> \o join_commas(items, 1) \o <<"]">>

IntItems(arr) == [i \in 1..Len(arr) |-> to_string(arr[i])]

StrItems(arr) == [i \in 1..Len(arr) |-> Quoted(arr[i])]

DimItems(arr) ==
    [i \in 1..Len(arr) |->
        IF arr[i].has THEN to_string(arr[i].val) ELSE Chars("null")]

\* fixed_shape_tensor_extension::metadata::to_json, std::ostringstream build
fixed_to_json(m) ==
    <<"{">> \o Quoted(Chars("shape")) \o <<":", "[">>
    \o join_commas(IntItems(m.shape), 1) \o <<"]">>
    \o (IF m.dim_names.has
        THEN <<",">> \o Quoted(Chars("dim_names")) \o <<":", "[">>
             \o join_commas(StrItems(m.dim_names.val), 1) \o <<"]">>
        ELSE <<>>)
    \o (IF m.permutation.has
        THEN <<",">> \o Quoted(Chars("permutation")) \o <<":", "[">>
             \o join_commas(IntItems(m.permutation.val), 1) \o <<"]">>
        ELSE <<>>)
    \o <<"}">>

\* fixed_shape_tensor_extension::metadata::to_json, std::string build
fixed_to_json_reserve(m) ==
    <<"{">> \o Quoted(Chars("shape")) \o <<":">>
    \o serialize_array(IntItems(m.shape))
    \o (IF m.dim_names.has
        THEN <<",">> \o Quoted(Chars("dim_names")) \o <<":">>
             \o serialize_array(StrItems(m.dim_names.val))
        ELSE <<>>)
    \o (IF m.permutation.has
        THEN <<",">> \o Quoted(Chars("permutation")) \o <<":">>
             \o serialize_array(IntItems(m.permutation.val))
        ELSE <<>>)
    \o <<"}">>

\* variable_shape_tensor_extension::metadata::to_json; first_field is the
\* flag of the same name, threaded through the three optional fields
variable_to_json(m) ==
    IF ~m.dim_names.has /\ ~m.permutation.has /\ ~m.uniform_shape.has
    THEN <<"{", "}">>
    ELSE
    LET first_field0 == TRUE
        part1 == IF m.dim_names.has
                 THEN (IF ~first_field0 THEN <<",">> ELSE <<>>)
                      \o Quoted(Chars("dim_names")) \o <<":">>
                      \o serialize_array(StrItems(m.dim_names.val))
                 ELSE <<>>
        first_field1 == IF m.dim_names.has THEN FALSE ELSE first_field0
        part2 == IF m.permutation.has
                 THEN (IF ~first_field1 THEN <<",">> ELSE <<>>)
                      \o Quoted(Chars("permutation")) \o <<":">>
                      \o serialize_array(IntItems(m.permutation.val))
                 ELSE <<>>
        first_field2 == IF m.permutation.has THEN FALSE ELSE first_field1
        part3 == IF m.uniform_shape.has
                 THEN (IF ~first_field2 THEN <<",">> ELSE <<>>)
                      \o Quoted(Chars("uniform_shape")) \o <<":">>
                      \o serialize_array(DimItems(m.uniform_shape.val))
                 ELSE <<>>
    IN  <<"{">> \o part1 \o part2 \o part3 \o <<"}">>

(***************************************************************************)
(* Decoding results                                                        *)
(***************************************************************************)
EmptyFixed == [shape |-> <<>>, dim_names |-> None, permutation |-> None]

\* variable_shape_tensor_extension::metadata{}
EmptyVariable ==
    [dim_names |-> None, permutation |-> None, uniform_shape |-> None]

\* a step of a scanner: where the cursor is and what was read
At(p, v) == [ok |-> TRUE, err |-> "", pos |-> p, val |-> v]

\* an exception of the given type leaving the function
Throw(e) == [ok |-> FALSE, err |-> e, pos |-> 0, val |-> <<>>]

Returned(m) == [ok |-> TRUE, err |-> "", val |-> m]

Failed(e, dflt) == [ok |-> FALSE, err |-> e, val |-> dflt]

NotRun == [ok |-> FALSE, err |-> "not run", val |-> <<>>]

(***************************************************************************)
(* std::stoll on a run of the form [sign] digit*                           *)
(***************************************************************************)
Int64MaxDigits ==
    <<"9", "2", "2", "3", "3", "7", "2", "0", "3", "6",
      "8", "5", "4", "7", "7", "5", "8", "0", "7">>

RECURSIVE StripZeros(_)
StripZeros(d) ==
    IF Len(d) > 1 /\ Head(d) = "0" THEN StripZeros(Tail(d)) ELSE d

RECURSIVE DigitsGreater(_, _)
DigitsGreater(a, b) ==
    IF a = <<>> THEN FALSE
    ELSE IF DigitVal(Head(a)) # DigitVal(Head(b))
         THEN DigitVal(Head(a)) > DigitVal(Head(b))
         ELSE DigitsGreater(Tail(a), Tail(b))

\* |value| > 2^63 - 1 (2^63 for a negative number), decided on the digits
OutOfInt64(digits, negative) ==
    LET lim == IF negative
               THEN [Int64MaxDigits EXCEPT ![19] = "8"]
               ELSE Int64MaxDigits
        above(d) == Len(d) > 19 \/ (Len(d) = 19 /\ DigitsGreater(d, lim))
    IN  above(StripZeros(digits))

RECURSIVE DigitsToNat(_, _)
DigitsToNat(d, acc) ==
    IF d = <<>> THEN acc
    ELSE DigitsToNat(Tail(d), 10 * acc + DigitVal(Head(d)))

stoll(str) ==
    LET signed == Len(str) > 0 /\ Head(str) \in {"-", "+"}
        negative == signed /\ Head(str) = "-"
        convert(digits) ==
            IF digits = <<>>
            THEN [ok |-> FALSE, err |-> "invalid_argument", val |-> 0]
            ELSE IF OutOfInt64(digits, negative)
            THEN [ok |-> FALSE, err |-> "out_of_range", val |-> 0]
            ELSE [ok |-> TRUE, err |-> "",
                  val |-> IF negative THEN -DigitsToNat(digits, 0)
                          ELSE DigitsToNat(digits, 0)]
    IN  convert(IF signed THEN Tail(str) ELSE str)

(***************************************************************************)
(* The hand-written scanner of fixed_shape_tensor.cpp.  pos is the cursor, *)
(* counted from 1: the code's pos >= json_str.size() is pos > Len(s).      *)
(***************************************************************************)
\* a skip_whitespace that skips nothing
skip_whitespace_none(s, pos) == pos

RECURSIVE skip_whitespace(_, _)
skip_whitespace(s, pos) ==
    IF pos <= Len(s) /\ IsSpace(s[pos]) THEN skip_whitespace(s, pos + 1)
    ELSE pos

\* the while loop of read_string: advance to the next quote or to the end
RECURSIVE find_quote(_, _)
find_quote(s, pos) ==
    IF pos <= Len(s) /\ s[pos] # DQ THEN find_quote(s, pos + 1) ELSE pos

read_string(s, pos0) ==
    LET close(start, q) ==
            IF q > Len(s) THEN Throw("runtime_error")
            ELSE At(q + 1, SubSeq(s, start, q - 1))
        open(p) ==
            IF p > Len(s) \/ s[p] # DQ THEN Throw("runtime_error")
            ELSE close(p + 1, find_quote(s, p + 1))
    IN  open(skip_whitespace(s, pos0))

\* a digit scan that reads one digit only
skip_one_digit(s, pos) ==
    IF pos <= Len(s) /\ IsDigit(s[pos]) THEN pos + 1 ELSE pos

\* the while loop of read_int over std::isdigit
RECURSIVE skip_digits(_, _)
skip_digits(s, pos) ==
    IF pos <= Len(s) /\ IsDigit(s[pos]) THEN skip_digits(s, pos + 1) ELSE pos

read_int(s, pos0) ==
    LET convert(p2, n) == IF n.ok THEN At(p2, n.val) ELSE Throw(n.err)
        digits(start, p2) == convert(p2, stoll(SubSeq(s, start, p2 - 1)))
        sign(start) ==
            digits(start,
                   skip_digits(s, IF start <= Len(s) /\ s[start] \in {"-", "+"}
                                  THEN start + 1 ELSE start))
    IN  sign(skip_whitespace(s, pos0))

\* the while (true) loop of read_int_array; arr is the vector so far
RECURSIVE read_int_array_loop(_, _, _)
read_int_array_loop(s, pos0, arr) ==
    LET separator(p, arr1) ==
            IF p > Len(s) THEN Throw("runtime_error")
            ELSE IF s[p] = "]" THEN At(p + 1, arr1)
            ELSE IF s[p] # "," THEN Throw("runtime_error")
            ELSE read_int_array_loop(s, p + 1, arr1)
        element(e) ==
            IF ~e.ok THEN e
            ELSE separator(skip_whitespace(s, e.pos), Append(arr, e.val))
    IN  element(read_int(s, pos0))

read_int_array(s, pos0) ==
    LET first(p1) ==
            IF p1 <= Len(s) /\ s[p1] = "]" THEN At(p1 + 1, <<>>)
            ELSE read_int_array_loop(s, p1, <<>>)
        open(p) ==
            IF p > Len(s) \/ s[p] # "[" THEN Throw("runtime_error")
            ELSE first(skip_whitespace(s, p + 1))
    IN  open(skip_whitespace(s, pos0))

\* the while (true) loop of read_string_array
RECURSIVE read_string_array_loop(_, _, _)
read_string_array_loop(s, pos0, arr) ==
    LET separator(p, arr1) ==
            IF p > Len(s) THEN Throw("runtime_error")
            ELSE IF s[p] = "]" THEN At(p + 1, arr1)
            ELSE IF s[p] # "," THEN Throw("runtime_error")
            ELSE read_string_array_loop(s, p + 1, arr1)
        element(e) ==
            IF ~e.ok THEN e
            ELSE separator(skip_whitespace(s, e.pos), Append(arr, e.val))
    IN  element(read_string(s, pos0))

read_string_array(s, pos0) ==
    LET first(p1) ==
            IF p1 <= Len(s) /\ s[p1] = "]" THEN At(p1 + 1, <<>>)
            ELSE read_string_array_loop(s, p1, <<>>)
        open(p) ==
            IF p > Len(s) \/ s[p] # "[" THEN Throw("runtime_error")
            ELSE first(skip_whitespace(s, p + 1))
    IN  open(skip_whitespace(s, pos0))

\* the key dispatch of the object loop: the value read into result, or the
\* exception
read_field(s, pos0, key, result) ==
    LET set_shape(a) ==
            IF a.ok THEN At(a.pos, [result EXCEPT !.shape = a.val]) ELSE a
        set_dim_names(a) ==
            IF a.ok THEN At(a.pos, [result EXCEPT !.dim_names = Some(a.val)])
            ELSE a
        set_permutation(a) ==
            IF a.ok THEN At(a.pos, [result EXCEPT !.permutation = Some(a.val)])
            ELSE a
    IN  IF key = Chars("shape") THEN set_shape(read_int_array(s, pos0))
        ELSE IF key = Chars("dim_names")
        THEN set_dim_names(read_string_array(s, pos0))
        ELSE IF key = Chars("permutation")
        THEN set_permutation(read_int_array(s, pos0))
        ELSE Throw("runtime_error")

\* the while (true) loop over the members of the object
RECURSIVE object_loop(_, _, _)
object_loop(s, pos0, result) ==
    LET next_member(f, p2) ==
            IF p2 > Len(s) THEN Throw("runtime_error")
            ELSE IF s[p2] = "}" THEN At(p2 + 1, f.val)
            ELSE IF s[p2] # "," THEN Throw("runtime_error")
            ELSE object_loop(s, p2 + 1, f.val)
        after_value(f) ==
            IF ~f.ok THEN f ELSE next_member(f, skip_whitespace(s, f.pos))
        value(key, p1) ==
            IF p1 > Len(s) \/ s[p1] # ":" THEN Throw("runtime_error")
            ELSE after_value(read_field(s, p1 + 1, key.val, result))
        after_key(key) ==
            IF ~key.ok THEN key ELSE value(key, skip_whitespace(s, key.pos))
        member(p) ==
            IF p > Len(s) THEN Throw("runtime_error")
            ELSE IF s[p] = "}" THEN At(p + 1, result)
            ELSE after_key(read_string(s, p))
    IN  member(skip_whitespace(s, pos0))

\* from_json that returns what it parsed without validating it
fixed_from_json_unchecked(json) ==
    LET finish(o) ==
            IF ~o.ok THEN Failed(o.err, EmptyFixed)
            ELSE IF Len(o.val.shape) = 0
            THEN Failed("runtime_error", EmptyFixed)
            ELSE Returned(o.val)
        open(p) ==
            IF p > Len(json) \/ json[p] # "{"
            THEN Failed("runtime_error", EmptyFixed)
            ELSE finish(object_loop(json, p + 1, EmptyFixed))
    IN  open(skip_whitespace(json, 1))

\* fixed_shape_tensor_extension::metadata::from_json, hand-written build
fixed_from_json(json) ==
    LET finish(o) ==
            IF ~o.ok THEN Failed(o.err, EmptyFixed)
            ELSE IF Len(o.val.shape) = 0
            THEN Failed("runtime_error", EmptyFixed)
            ELSE IF ~fixed_is_valid(o.val)
            THEN Failed("runtime_error", EmptyFixed)
            ELSE Returned(o.val)
        open(p) ==
            IF p > Len(json) \/ json[p] # "{"
            THEN Failed("runtime_error", EmptyFixed)
            ELSE finish(object_loop(json, p + 1, EmptyFixed))
    IN  open(skip_whitespace(json, 1))

(***************************************************************************)
(* simdjson (external library, v4.2.4 in cmake/external_dependencies.cmake)*)
(* is modelled by the grammar it implements, RFC 8259: a document is one   *)
(* value between optional whitespace.  A parsed value is a record with a   *)
(* type tag t and a payload v; an object is the sequence of its members in *)
(* the order of the text.                                                  *)
(***************************************************************************)
RECURSIVE json_skip(_, _)
json_skip(s, pos) ==
    IF pos <= Len(s) /\ IsJsonSpace(s[pos]) THEN json_skip(s, pos + 1) ELSE pos

\* a scalar must be followed by a structural character, whitespace or the end
JsonScalarEnd(s, pos) ==
    pos > Len(s) \/ IsJsonSpace(s[pos])
    \/ s[pos] \in {",", "]", "}", ":", "[", "{"}

IsHex(c) == IsDigit(c) \/ c \in {"a", "b", "c", "d", "e", "f",
                                 "A", "B", "C", "D", "E", "F"}

\* the characters of a string up to its closing quote, escapes decoded;
\* "<b>" and "<u>" stand for a backspace and for a \u escape
RECURSIVE json_string_loop(_, _, _)
json_string_loop(s, p, acc) ==
    IF p > Len(s) THEN Throw("simdjson_error")
    ELSE IF s[p] = DQ THEN At(p + 1, acc)
    ELSE IF s[p] \in {"\t", "\n", "\r", "\f"} THEN Throw("simdjson_error")
    ELSE IF s[p] # BS THEN json_string_loop(s, p + 1, Append(acc, s[p]))
    ELSE IF p + 1 > Len(s) THEN Throw("simdjson_error")
    ELSE LET e == s[p + 1]
         IN  IF e \in {DQ, BS, "/"}
             THEN json_string_loop(s, p + 2, Append(acc, e))
             ELSE IF e \in {"n", "t", "r", "f", "b"}
             THEN json_string_loop(s, p + 2, Append(acc,
                     CASE e = "n" -> "\n" [] e = "t" -> "\t"
                       [] e = "r" -> "\r" [] e = "f" -> "\f"
                       [] e = "b" -> "<b>"))
             ELSE IF e = "u" /\ p + 5 <= Len(s)
                     /\ \A k \in 2..5 : IsHex(s[p + k])
             THEN json_string_loop(s, p + 6, Append(acc, "<u>"))
             ELSE Throw("simdjson_error")

json_string(s, pos) ==
    LET element(r) ==
            IF r.ok THEN At(r.pos, [t |-> "string", v |-> r.val]) ELSE r
    IN  element(json_string_loop(s, pos + 1, <<>>))

\* |value| <= 2^31 - 1, decided on the digits
FitsInt32(digits) ==
    LET lim == <<"2", "1", "4", "7", "4", "8", "3", "6", "4", "7">>
        within(d) == Len(d) < 10 \/ (Len(d) = 10 /\ ~DigitsGreater(d, lim))
    IN  within(StripZeros(digits))

\* -?(0|[1-9][0-9]*): no leading plus, no leading zero; a value beyond
\* int64 is not an int64 element, and -0 is the double -0.0.  An int64
\* element keeps its digits; v is its value when that is within 32 bits,
\* which is all that integers here can hold
json_number(s, pos) ==
    LET negative == s[pos] = "-"
        p1 == IF negative THEN pos + 1 ELSE pos
        element(p2, digits) ==
            IF s[p1] = "0" /\ p2 > p1 + 1 THEN Throw("simdjson_error")
            ELSE IF ~JsonScalarEnd(s, p2) THEN Throw("simdjson_error")
            ELSE IF negative /\ digits = <<"0">>
            THEN At(p2, [t |-> "double", v |-> 0])
            ELSE IF OutOfInt64(digits, negative)
            THEN At(p2, [t |-> "uint64", v |-> 0])
            ELSE At(p2, [t |-> "int64", negative |-> negative,
                         digits |-> digits,
                         v |-> IF ~FitsInt32(digits) THEN 0
                               ELSE IF negative THEN -DigitsToNat(digits, 0)
                               ELSE DigitsToNat(digits, 0)])
        scan(p2) == element(p2, SubSeq(s, p1, p2 - 1))
    IN  IF p1 > Len(s) \/ ~IsDigit(s[p1]) THEN Throw("simdjson_error")
        ELSE scan(skip_digits(s, p1))

json_literal(s, pos) ==
    LET Is(w) == pos + Len(w) - 1 <= Len(s)
                 /\ SubSeq(s, pos, pos + Len(w) - 1) = w
                 /\ JsonScalarEnd(s, pos + Len(w))
    IN  IF Is(Chars("null")) THEN At(pos + 4, [t |-> "null", v |-> 0])
        ELSE IF Is(Chars("true")) THEN At(pos + 4, [t |-> "bool", v |-> 1])
        ELSE IF Is(Chars("false")) THEN At(pos + 5, [t |-> "bool", v |-> 0])
        ELSE Throw("simdjson_error")

RECURSIVE json_value(_, _)
RECURSIVE json_array_loop(_, _, _)
RECURSIVE json_object_loop(_, _, _)

\* after '[' or ',': one element, then ',' or ']'
json_array_loop(s, pos, arr) ==
    LET separator(p, arr1) ==
            IF p > Len(s) THEN Throw("simdjson_error")
            ELSE IF s[p] = "]" THEN At(p + 1, [t |-> "array", v |-> arr1])
            ELSE IF s[p] # "," THEN Throw("simdjson_error")
            ELSE json_array_loop(s, json_skip(s, p + 1), arr1)
        element(e) ==
            IF ~e.ok THEN e
            ELSE separator(json_skip(s, e.pos), Append(arr, e.val))
    IN  element(json_value(s, pos))

\* after '{' or ',': one member "key" : value, then ',' or '}'
json_object_loop(s, pos, members) ==
    LET separator(p2, members1) ==
            IF p2 > Len(s) THEN Throw("simdjson_error")
            ELSE IF s[p2] = "}"
            THEN At(p2 + 1, [t |-> "object", v |-> members1])
            ELSE IF s[p2] # "," THEN Throw("simdjson_error")
            ELSE json_object_loop(s, json_skip(s, p2 + 1), members1)
        member(k, e) ==
            IF ~e.ok THEN e
            ELSE separator(json_skip(s, e.pos),
                           Append(members, [key |-> k.val.v, value |-> e.val]))
        colon(k, p1) ==
            IF p1 > Len(s) \/ s[p1] # ":" THEN Throw("simdjson_error")
            ELSE member(k, json_value(s, json_skip(s, p1 + 1)))
        key(k) == IF ~k.ok THEN k ELSE colon(k, json_skip(s, k.pos))
    IN  IF pos > Len(s) \/ s[pos] # DQ THEN Throw("simdjson_error")
        ELSE key(json_string(s, pos))

json_value(s, pos) ==
    LET object(p) ==
            IF p <= Len(s) /\ s[p] = "}"
            THEN At(p + 1, [t |-> "object", v |-> <<>>])
            ELSE json_object_loop(s, p, <<>>)
        array(p) ==
            IF p <= Len(s) /\ s[p] = "]"
            THEN At(p + 1, [t |-> "array", v |-> <<>>])
            ELSE json_array_loop(s, p, <<>>)
    IN  IF pos > Len(s) THEN Throw("simdjson_error")
        ELSE IF s[pos] = "{" THEN object(json_skip(s, pos + 1))
        ELSE IF s[pos] = "[" THEN array(json_skip(s, pos + 1))
        ELSE IF s[pos] = DQ THEN json_string(s, pos)
        ELSE IF s[pos] = "-" \/ IsDigit(s[pos]) THEN json_number(s, pos)
        ELSE json_literal(s, pos)

\* simdjson::dom::parser::parse / ondemand::parser::iterate: the document,
\* or a simdjson_error
json_parse(json) ==
    LET document(e) ==
            IF ~e.ok THEN e
            ELSE IF json_skip(json, e.pos) <= Len(json)
            THEN Throw("simdjson_error")
            ELSE e
    IN  document(json_value(json, json_skip(json, 1)))

\* element[key]: the first member with that key; an error on a value that
\* is no object and on an object without the key
at_key(doc, key) ==
    IF doc.t # "object" THEN Throw("simdjson_error")
    ELSE IF \E i \in 1..Len(doc.v) : doc.v[i].key = key
    THEN At(0, doc.v[CHOOSE i \in 1..Len(doc.v) :
                        /\ doc.v[i].key = key
                        /\ \A j \in 1..(i - 1) : doc.v[j].key # key].value)
    ELSE Throw("simdjson_error")

\* get_array() and a loop of get_int64() over the elements
parse_int_array(el) ==
    IF el.t # "array" THEN Throw("simdjson_error")
    ELSE IF \E i \in 1..Len(el.v) : el.v[i].t # "int64"
    THEN Throw("simdjson_error")
    ELSE At(0, [i \in 1..Len(el.v) |-> el.v[i].v])

\* get_array() and a loop of get_string().value() over the elements
parse_string_array(el) ==
    IF el.t # "array" THEN Throw("simdjson_error")
    ELSE IF \E i \in 1..Len(el.v) : el.v[i].t # "string"
    THEN Throw("simdjson_error")
    ELSE At(0, [i \in 1..Len(el.v) |-> el.v[i].v])

\* bytes times ten plus carry, from byte i on; the bytes are eight, low
\* byte first
RECURSIVE TimesTenPlus(_, _, _)
TimesTenPlus(bytes, i, carry) ==
    LET byte(t) == <<t % 256>> \o TimesTenPlus(bytes, i + 1, t \div 256)
    IN  IF i > 8 THEN <<>> ELSE byte(bytes[i] * 10 + carry)

\* the eight bytes of the number the digits write
RECURSIVE DigitsToBytes(_, _)
DigitsToBytes(d, acc) ==
    IF d = <<>> THEN acc
    ELSE DigitsToBytes(Tail(d), TimesTenPlus(acc, 1, DigitVal(Head(d))))

\* two's complement of the eight bytes, from byte i on
RECURSIVE Negated(_, _, _)
Negated(bytes, i, carry) ==
    LET byte(t) == <<t % 256>> \o Negated(bytes, i + 1, t \div 256)
    IN  IF i > 8 THEN <<>> ELSE byte(255 - bytes[i] + carry)

\* value.get_int64() of an int64 element: the 64 bits of its value
get_int64(el) ==
    LET magnitude(b) == IF el.negative THEN Negated(b, 1, 1) ELSE b
    IN  magnitude(DigitsToBytes(el.digits, <<0, 0, 0, 0, 0, 0, 0, 0>>))

\* static_cast<std::int32_t>(std::int64_t): the low 32 bits, read as a
\* two's complement number
static_cast_int32(bytes) ==
    bytes[1] + 256 * bytes[2] + 65536 * bytes[3]
    + 16777216 * (IF bytes[4] < 128 THEN bytes[4] ELSE bytes[4] - 256)

\* a uniform_shape loop without the is_null() branch
parse_dim_array_nonull(el) ==
    IF el.t # "array" THEN Throw("simdjson_error")
    ELSE IF \E i \in 1..Len(el.v) : el.v[i].t # "int64"
    THEN Throw("simdjson_error")
    ELSE At(0, [i \in 1..Len(el.v) |-> Dim(static_cast_int32(get_int64(el.v[i])))])

\* the uniform_shape loop: null or a narrowed get_int64()
parse_dim_array(el) ==
    IF el.t # "array" THEN Throw("simdjson_error")
    ELSE IF \E i \in 1..Len(el.v) : el.v[i].t \notin {"int64", "null"}
    THEN Throw("simdjson_error")
    ELSE At(0, [i \in 1..Len(el.v) |->
                   IF el.v[i].t = "null" THEN NullDim
                   ELSE Dim(static_cast_int32(get_int64(el.v[i])))])

(***************************************************************************)
(* Decoders built on simdjson.  A simdjson_error is caught and rethrown as *)
(* std::runtime_error, so every failure below is a runtime_error.          *)
(***************************************************************************)
\* fixed_shape_tensor_extension::metadata::from_json, simdjson build
fixed_from_json_simd(json) ==
    LET \* if (field.error() == SUCCESS) member = parse(field.get_array())
        assign(a) == IF a.ok THEN At(0, Some(a.val)) ELSE a
        optional_field(field, parse(_)) ==
            IF field.ok THEN assign(parse(field.val)) ELSE At(0, None)
        validate(result) ==
            IF ~fixed_is_valid_seen(result)
            THEN Failed("runtime_error", EmptyFixed)
            ELSE Returned(result)
        optional(shape, dim_names, permutation) ==
            IF ~dim_names.ok \/ ~permutation.ok
            THEN Failed("runtime_error", EmptyFixed)
            ELSE validate([shape |-> shape.val, dim_names |-> dim_names.val,
                           permutation |-> permutation.val])
        required(doc, shape) ==
            IF ~shape.ok THEN Failed("runtime_error", EmptyFixed)
            ELSE IF Len(shape.val) = 0
            THEN Failed("runtime_error", EmptyFixed)
            ELSE optional(shape,
                          optional_field(at_key(doc.val, Chars("dim_names")),
                                         parse_string_array),
                          optional_field(at_key(doc.val, Chars("permutation")),
                                         parse_int_array))
        shape_array(doc, shape_field) ==
            IF ~shape_field.ok THEN Failed("runtime_error", EmptyFixed)
            ELSE required(doc, parse_int_array(shape_field.val))
        document(doc) ==
            IF ~doc.ok THEN Failed("runtime_error", EmptyFixed)
            ELSE shape_array(doc, at_key(doc.val, Chars("shape")))
    IN  document(json_parse(json))

\* the try block of variable_shape_tensor_extension::metadata::from_json
variable_from_json_parse(json) ==
    LET \* if (field.error() == SUCCESS) member = parse(field.get_array())
        assign(a) == IF a.ok THEN At(0, Some(a.val)) ELSE a
        optional_field(field, parse(_)) ==
            IF field.ok THEN assign(parse(field.val)) ELSE At(0, None)
        validate(result) ==
            IF ~variable_is_valid(result)
            THEN Failed("runtime_error", EmptyVariable)
            ELSE Returned(result)
        optional(dim_names, permutation, uniform_shape) ==
            IF ~dim_names.ok \/ ~permutation.ok \/ ~uniform_shape.ok
            THEN Failed("runtime_error", EmptyVariable)
            ELSE validate([dim_names |-> dim_names.val,
                           permutation |-> permutation.val,
                           uniform_shape |-> uniform_shape.val])
        document(doc) ==
            IF ~doc.ok THEN Failed("runtime_error", EmptyVariable)
            ELSE optional(
                   optional_field(at_key(doc.val, Chars("dim_names")),
                                  parse_string_array),
                   optional_field(at_key(doc.val, Chars("permutation")),
                                  parse_int_array),
                   optional_field(at_key(doc.val, Chars("uniform_shape")),
                                  parse_dim_array))
    IN  document(json_parse(json))

\* variable_shape_tensor_extension::metadata::from_json
variable_from_json(json) ==
    IF json = <<>> \/ json = <<"{", "}">> THEN Returned(EmptyVariable)
    ELSE variable_from_json_parse(json)

(***************************************************************************)
(* Metadata values the operations are applied to                           *)
(***************************************************************************)
OneName == <<"a">>

\* every fixed-shape value with vectors of at most MaxRank entries
ValidatorFixed ==
    [shape : SeqsUpTo(-1..2, MaxRank),
     dim_names : Opt(SeqsUpTo({OneName}, MaxRank)),
     permutation : Opt(SeqsUpTo(-1..MaxRank, MaxRank))]

\* every variable-shape value with vectors of at most MaxRank entries
ValidatorVariable ==
    [dim_names : Opt(SeqsUpTo({OneName}, MaxRank)),
     permutation : Opt(SeqsUpTo(-1..MaxRank, MaxRank)),
     uniform_shape : Opt(SeqsUpTo({NullDim} \cup {Dim(n) : n \in -1..2},
                                  MaxRank))]

\* names that need no escaping: empty, a letter, a name with a blank
PlainNames == {<<>>, <<"a">>, <<"x", " ", "y">>}

\* names with a quote, with a trailing backslash, with the two characters \n,
\* with a line feed
AllNames ==
    PlainNames \cup {<<"a", DQ>>, <<"b", BS>>, <<BS, "n">>, <<"\n">>}

Const(r, v) == [i \in 1..r |-> v]

Identity(r) == [i \in 1..r |-> i - 1]

\* fixed-shape values of rank r in which one field at a time ranges widely
CodecFixedOfRank(r) ==
    LET shapes == [1..r -> {-1, 2, 12}]
        names == [1..r -> AllNames]
        perms == [1..r -> -1..(r - 1)]
        d0 == {None, Some(Const(r, OneName))}
        p0 == {None, Some(Identity(r))}
    IN  [shape : shapes, dim_names : d0, permutation : p0]
        \cup [shape : {Const(r, 2)}, dim_names : Opt(names), permutation : p0]
        \cup [shape : {Const(r, 2)}, dim_names : d0, permutation : Opt(perms)]

CodecFixed == UNION {CodecFixedOfRank(r) : r \in 0..MaxRank}

CodecVariableOfRank(r) ==
    LET names == [1..r -> AllNames]
        perms == [1..r -> -1..(r - 1)]
        dims == [1..r -> {NullDim, Dim(-1), Dim(3), Dim(12)}]
        d0 == {None, Some(Const(r, OneName))}
        p0 == {None, Some(Identity(r))}
        u0 == {None, Some(Const(r, NullDim))}
    IN  [dim_names : Opt(names), permutation : p0, uniform_shape : u0]
        \cup [dim_names : d0, permutation : Opt(perms), uniform_shape : u0]
        \cup [dim_names : d0, permutation : p0, uniform_shape : Opt(dims)]

CodecVariable == UNION {CodecVariableOfRank(r) : r \in 0..MaxRank}

\* the few values whose encodings are corrupted character by character
TextFixed ==
    {[shape |-> <<2>>, dim_names |-> None, permutation |-> None],
     [shape |-> <<2, 12>>, dim_names |-> Some(<<<<"a">>, <<"b">>>>),
      permutation |-> Some(<<1, 0>>)],
     [shape |-> <<>>, dim_names |-> None, permutation |-> None],
     [shape |-> <<2>>, dim_names |-> None, permutation |-> Some(<<1>>)],
     [shape |-> <<0>>, dim_names |-> Some(<<<<"a">>>>), permutation |-> None]}

TextVariable ==
    {EmptyVariable,
     [dim_names |-> Some(<<<<"a">>>>), permutation |-> Some(<<0>>),
      uniform_shape |-> Some(<<NullDim>>)],
     [dim_names |-> None, permutation |-> None,
      uniform_shape |-> Some(<<Dim(3), NullDim>>)],
     [dim_names |-> None, permutation |-> Some(<<>>), uniform_shape |-> None]}

(***************************************************************************)
(* State machine                                                           *)
(***************************************************************************)
NoRes == [scan |-> NotRun, simd |-> NotRun, dom |-> NotRun]

NoChk == [op |-> "none", valid |-> FALSE, valid_seen |-> FALSE, ndim |-> None]

\* an arrow proxy without name and without key/value metadata
NoProxy == [name |-> None, metadata |-> None]

\* no tensor array constructed and no operation on a proxy done yet
NoArray == [op |-> "none"]

Start(k, m) ==
    /\ proxy = NoProxy
    /\ tensor = NoArray
    /\ kind = k
    /\ meta = m
    /\ text = <<>>
    /\ res = NoRes
    /\ chk = NoChk
    /\ pc = "init"
    /\ base = <<>>
    /\ bres = NoRes

InitValid ==
    \/ \E m \in ValidatorFixed : Start("fixed", m)
    \/ \E m \in ValidatorVariable : Start("variable", m)

InitCodec ==
    \/ \E m \in CodecFixed : Start("fixed", m)
    \/ \E m \in CodecVariable : Start("variable", m)

InitText ==
    \/ \E m \in TextFixed : Start("fixed", m)
    \/ \E m \in TextVariable : Start("variable", m)

\* fixed_shape_tensor_extension::metadata::is_valid() of either build
FixedIsValid ==
    /\ pc = "init"
    /\ kind = "fixed"
    /\ chk' = [op |-> "is_valid", valid |-> fixed_is_valid(meta),
               valid_seen |-> fixed_is_valid_seen(meta), ndim |-> None,
               indexed |-> fixed_seen_indexed(meta)]
    /\ pc' = "checked"
    /\ UNCHANGED <<kind, meta, proxy, tensor, text, res, base, bres>>

\* variable_shape_tensor_extension::metadata::is_valid()
VariableIsValid ==
    /\ pc = "init"
    /\ kind = "variable"
    /\ chk' = [op |-> "is_valid", valid |-> variable_is_valid(meta),
               valid_seen |-> variable_is_valid(meta), ndim |-> None]
    /\ pc' = "checked"
    /\ UNCHANGED <<kind, meta, proxy, tensor, text, res, base, bres>>

\* variable_shape_tensor_extension::metadata::get_ndim()
GetNdim ==
    /\ pc = "init"
    /\ kind = "variable"
    /\ chk' = [op |-> "get_ndim", valid |-> FALSE, valid_seen |-> FALSE,
               ndim |-> get_ndim(meta)]
    /\ pc' = "checked"
    /\ UNCHANGED <<kind, meta, proxy, tensor, text, res, base, bres>>

\* fixed_shape_tensor_extension::metadata::to_json() of either build
FixedToJson ==
    /\ pc = "init"
    /\ kind = "fixed"
    /\ text' \in {fixed_to_json(meta), fixed_to_json_reserve(meta)}
    /\ pc' = "encoded"
    /\ UNCHANGED <<kind, meta, proxy, tensor, res, chk, base, bres>>

\* variable_shape_tensor_extension::metadata::to_json()
VariableToJson ==
    /\ pc = "init"
    /\ kind = "variable"
    /\ text' = variable_to_json(meta)
    /\ pc' = "encoded"
    /\ UNCHANGED <<kind, meta, proxy, tensor, res, chk, base, bres>>

\* fixed_shape_tensor_extension::metadata::from_json(text) of either build;
\* after whitespace was inserted it is applied if it was applied before
FixedFromJson ==
    /\ pc \in {"encoded", "mutated", "spaced"}
    /\ pc = "spaced" => bres.scan.err # "not run"
    /\ res' = [scan |-> fixed_from_json(text),
               simd |-> fixed_from_json_simd(text), dom |-> NotRun]
    /\ pc' = "decoded"
    /\ UNCHANGED <<kind, meta, proxy, tensor, text, chk, base, bres>>

\* variable_shape_tensor_extension::metadata::from_json(text)
VariableFromJson ==
    /\ pc \in {"encoded", "mutated", "spaced"}
    /\ pc = "spaced" => bres.dom.err # "not run"
    /\ res' = [scan |-> NotRun, simd |-> NotRun,
               dom |-> variable_from_json(text)]
    /\ pc' = "decoded"
    /\ UNCHANGED <<kind, meta, proxy, tensor, text, chk, base, bres>>

Insert(s, i, run) == SubSeq(s, 1, i) \o run \o SubSeq(s, i + 1, Len(s))

MutChars == {"{", "}", "[", "]", ",", ":", DQ, "+", "-", "0", "x"}

\* the environment drops one character of an encoded text
DeleteChar ==
    /\ pc = "encoded"
    /\ \E i \in 1..Len(text) :
          text' = SubSeq(text, 1, i - 1) \o SubSeq(text, i + 1, Len(text))
    /\ pc' = "mutated"
    /\ UNCHANGED <<kind, meta, proxy, tensor, res, chk, base, bres>>

\* the environment adds one character to an encoded text
InsertChar ==
    /\ pc = "encoded"
    /\ \E i \in 0..Len(text), c \in MutChars : text' = Insert(text, i, <<c>>)
    /\ pc' = "mutated"
    /\ UNCHANGED <<kind, meta, proxy, tensor, res, chk, base, bres>>

UnknownMember == Quoted(<<"x">>) \o <<":", "[", "1", "]">>

\* the environment adds a member with an unrecognized key, first or last
AddUnknownKey ==
    /\ pc = "encoded"
    /\ LET empty == Len(text) = 2
       IN  text' \in
             {Insert(text, 1,
                     UnknownMember \o (IF empty THEN <<>> ELSE <<",">>)),
              Insert(text, Len(text) - 1,
                     (IF empty THEN <<>> ELSE <<",">>) \o UnknownMember)}
    /\ pc' = "mutated"
    /\ UNCHANGED <<kind, meta, proxy, tensor, res, chk, base, bres>>

IsWord(c) == ~IsSpace(c) /\ c \notin {"{", "}", "[", "]", ",", ":", DQ}

InString(s, i) == Cardinality({j \in 1..i : s[j] = DQ}) % 2 = 1

\* i characters of s precede a place between two tokens, or an end of s
Boundary(s, i) ==
    /\ ~InString(s, i)
    /\ ~(i >= 1 /\ i < Len(s) /\ IsWord(s[i]) /\ IsWord(s[i + 1]))

WsRuns == SeqsUpTo({" ", "\n", "\t"}, MaxWsRun) \ {<<>>}

\* the pieces ss[lo..hi] joined end to end, by halves
RECURSIVE Flatten(_, _, _)
Flatten(ss, lo, hi) ==
    IF lo > hi THEN <<>>
    ELSE IF lo = hi THEN ss[lo]
    ELSE LET mid == (lo + hi) \div 2
         IN  Flatten(ss, lo, mid) \o Flatten(ss, mid + 1, hi)

\* run inserted at every boundary of s
InsertEverywhere(s, run) ==
    LET piece(i) == (IF Boundary(s, i - 1) THEN run ELSE <<>>)
                    \o (IF i <= Len(s) THEN <<s[i]>> ELSE <<>>)
    IN  Flatten([i \in 1..(Len(s) + 1) |-> piece(i)], 1, Len(s) + 1)

\* the environment inserts whitespace between two tokens of a text that a
\* decoder accepted, or between all tokens at once
InsertWhitespace ==
    /\ pc = "decoded"
    /\ base = <<>>
    /\ res.scan.ok \/ res.simd.ok \/ res.dom.ok
    /\ \E run \in WsRuns :
          \/ \E i \in 0..Len(text) :
                Boundary(text, i) /\ text' = Insert(text, i, run)
          \/ text' = InsertEverywhere(text, run)
    /\ base' = text
    /\ bres' = res
    /\ pc' = "spaced"
    /\ UNCHANGED <<kind, meta, proxy, tensor, res, chk>>

NextValid == FixedIsValid \/ VariableIsValid \/ GetNdim

NextCodec == FixedToJson \/ VariableToJson \/ FixedFromJson \/ VariableFromJson

NextText ==
    \/ FixedToJson
    \/ VariableToJson
    \/ DeleteChar
    \/ InsertChar
    \/ AddUnknownKey
    \/ FixedFromJson
    \/ VariableFromJson
    \/ InsertWhitespace

\* validators applied to every small metadata value
SpecValid == InitValid /\ [][NextValid]_vars

\* encode, then decode
Spec == InitCodec /\ [][NextCodec]_vars

\* encode, corrupt or pad the text, decode
SpecText == InitText /\ [][NextText]_vars

(***************************************************************************)
(* The extension-metadata side channel.  The key/value metadata of an      *)
(* arrow proxy is an optional sequence of pairs; a pair is a record        *)
(* [first, second] (std::pair) whose key is a string and whose value is a  *)
(* text.  The extension names are texts of one symbol.                     *)
(***************************************************************************)
EXTENSION_NAME(k) ==
    IF k = "fixed" THEN <<"arrow.fixed_shape_tensor">>
    ELSE <<"arrow.variable_shape_tensor">>

metadata_pair(key, value) == [first |-> key, second |-> value]

\* std::ranges::find_if over the pairs for the name entry of extension k
has_extension_name(extension_metadata, k) ==
    \E i \in 1..Len(extension_metadata) :
        /\ extension_metadata[i].first = "ARROW:extension:name"
        /\ extension_metadata[i].second = EXTENSION_NAME(k)

\* the two entries init adds, json being the encoded tensor metadata
extension_entries(k, json) ==
    <<metadata_pair("ARROW:extension:name", EXTENSION_NAME(k)),
      metadata_pair("ARROW:extension:metadata", json)>>

\* what init leaves: the proxy, and how many times it called to_json
Initialized(px, n) == [ok |-> TRUE, err |-> "", proxy |-> px, encodes |-> n]

\* SPARROW_ASSERT_TRUE failed: the call does not return
AssertFailed(px) == [ok |-> FALSE, err |-> "assert", proxy |-> px, encodes |-> 0]

\* an init that replaces the list by its own two entries
fixed_init_overwrite(px, tensor_metadata) ==
    IF ~fixed_is_valid(tensor_metadata) THEN AssertFailed(px)
    ELSE Initialized(
           [px EXCEPT !.metadata =
               Some(extension_entries("fixed", fixed_to_json(tensor_metadata)))],
           1)

\* fixed_shape_tensor_extension::init, hand-written build
fixed_init(px, tensor_metadata) ==
    IF ~fixed_is_valid(tensor_metadata) THEN AssertFailed(px)
    ELSE
    LET extension_metadata ==
            IF px.metadata.has THEN px.metadata.val ELSE <<>>
    IN  IF ~has_extension_name(extension_metadata, "fixed")
        THEN Initialized(
               [px EXCEPT !.metadata =
                   Some(extension_metadata
                        \o extension_entries("fixed",
                                             fixed_to_json(tensor_metadata)))],
               1)
        ELSE Initialized([px EXCEPT !.metadata = Some(extension_metadata)], 0)

\* an init that appends its entries without looking for the name entry
fixed_init_simd_always(px, tensor_metadata) ==
    IF ~fixed_is_valid_seen(tensor_metadata) THEN AssertFailed(px)
    ELSE Initialized(
           [px EXCEPT !.metadata =
               Some((IF px.metadata.has THEN px.metadata.val ELSE <<>>)
                    \o extension_entries("fixed",
                                         fixed_to_json_reserve(tensor_metadata)))],
           1)

\* fixed_shape_tensor_extension::init, simdjson build
fixed_init_simd(px, tensor_metadata) ==
    IF ~fixed_is_valid_seen(tensor_metadata) THEN AssertFailed(px)
    ELSE IF px.metadata.has /\ has_extension_name(px.metadata.val, "fixed")
    THEN Initialized([px EXCEPT !.metadata = Some(px.metadata.val)], 0)
    ELSE
    LET extension_metadata ==
            IF px.metadata.has THEN px.metadata.val ELSE <<>>
    IN  Initialized(
          [px EXCEPT !.metadata =
              Some(extension_metadata
                   \o extension_entries("fixed",
                                        fixed_to_json_reserve(tensor_metadata)))],
          1)

\* variable_shape_tensor_extension::init
variable_init(px, tensor_metadata) ==
    IF ~variable_is_valid(tensor_metadata) THEN AssertFailed(px)
    ELSE IF px.metadata.has /\ has_extension_name(px.metadata.val, "variable")
    THEN Initialized([px EXCEPT !.metadata = Some(px.metadata.val)], 0)
    ELSE
    LET extension_metadata ==
            IF px.metadata.has THEN px.metadata.val ELSE <<>>
    IN  Initialized(
          [px EXCEPT !.metadata =
              Some(extension_metadata
                   \o extension_entries("variable",
                                        variable_to_json(tensor_metadata)))],
          1)

\* the index of the first pair with that key, 0 when there is none
find_key(list, key) ==
    IF \E i \in 1..Len(list) : list[i].first = key
    THEN CHOOSE i \in 1..Len(list) :
            /\ list[i].first = key
            /\ \A j \in 1..(i - 1) : list[j].first # key
    ELSE 0

\* fixed_shape_tensor_extension::extract_metadata, hand-written build: an
\* entry with an empty value counts as missing
fixed_extract_metadata(px) ==
    LET decode(metadata_json) ==
            IF metadata_json = <<>> THEN Failed("runtime_error", EmptyFixed)
            ELSE fixed_from_json(metadata_json)
        first_entry(i) ==
            decode(IF i = 0 THEN <<>> ELSE px.metadata.val[i].second)
    IN  IF ~px.metadata.has THEN Failed("runtime_error", EmptyFixed)
        ELSE first_entry(find_key(px.metadata.val, "ARROW:extension:metadata"))

\* fixed_shape_tensor_extension::extract_metadata, simdjson build
fixed_extract_metadata_simd(px) ==
    LET first_entry(i) ==
            IF i = 0 THEN Failed("runtime_error", EmptyFixed)
            ELSE fixed_from_json_simd(px.metadata.val[i].second)
    IN  IF ~px.metadata.has THEN Failed("runtime_error", EmptyFixed)
        ELSE first_entry(find_key(px.metadata.val, "ARROW:extension:metadata"))

\* an extract_metadata that throws, as the fixed-shape one does, when the
\* entry is missing
variable_extract_metadata_strict(px) ==
    LET first_entry(i) ==
            IF i = 0 THEN Failed("runtime_error", EmptyVariable)
            ELSE variable_from_json(px.metadata.val[i].second)
    IN  IF ~px.metadata.has THEN Failed("runtime_error", EmptyVariable)
        ELSE first_entry(find_key(px.metadata.val, "ARROW:extension:metadata"))

\* variable_shape_tensor_extension::extract_metadata
variable_extract_metadata(px) ==
    LET first_entry(i) ==
            IF i = 0 THEN Returned(EmptyVariable)
            ELSE variable_from_json(px.metadata.val[i].second)
    IN  IF ~px.metadata.has THEN Returned(EmptyVariable)
        ELSE first_entry(find_key(px.metadata.val, "ARROW:extension:metadata"))

(***************************************************************************)
(* The tensor arrays.  An arrow proxy is a record [name, metadata,         *)
(* storage]; the storage of a fixed-shape array is [list_size, size] (the  *)
(* width of the fixed size list and the number of lists), the storage of a *)
(* variable-shape array is [children, size, width] (the number of fields   *)
(* of the struct, the number of rows and the list width of its shape       *)
(* field).  SPARROW_ASSERT_TRUE is modelled with assertions enabled: a     *)
(* failed assertion ends the constructor without an object.                *)
(***************************************************************************)
arrow_proxy(name, metadata, storage) ==
    [name |-> name, metadata |-> metadata, storage |-> storage]

RECURSIVE accumulate(_, _)
\* std::accumulate(shape.begin(), shape.end(), 1, std::multiplies)
accumulate(shape, acc) ==
    IF Len(shape) = 0 THEN acc
    ELSE accumulate(Tail(shape), acc * Head(shape))

\* fixed_shape_tensor_extension::metadata::compute_size
compute_size(m) == accumulate(m.shape, 1)

\* an array object: its storage proxy, its m_metadata, and the number of
\* to_json calls its construction made
Built(r, m) ==
    [ok |-> r.ok, err |-> r.err, proxy |-> r.proxy, m_metadata |-> m,
     encodes |-> r.encodes]

\* the constructor was left without an object: by a failed assertion
\* ("assert"), an exception (its type) or a trap ("crash")
NotBuilt(e, m) ==
    [ok |-> FALSE, err |-> e, proxy |-> arrow_proxy(None, None, <<>>),
     m_metadata |-> m, encodes |-> 0]

\* the outcomes of an operation with undefined behaviour: a trap, or a
\* read that gives zero, or a read that gives the value held before
UndefinedOutcomes == {"trap", "zero", "stale"}

\* a storage that counts the flattened values instead of the lists
fixed_sized_list_array_flat(list_size, count, ub) ==
    IF list_size = 0 /\ ub = "trap" THEN [ok |-> FALSE]
    ELSE [ok |-> TRUE,
          proxy |-> arrow_proxy(None, None,
                                [list_size |-> list_size, size |-> count])]

\* m_storage(list_size, std::move(flat_values), ...): the fixed size list
\* array over count values holds count / list_size lists; the quotient by a
\* zero list_size is undefined
fixed_sized_list_array(list_size, count, ub) ==
    IF list_size = 0
    THEN IF ub = "trap" THEN [ok |-> FALSE]
         ELSE [ok |-> TRUE,
               proxy |-> arrow_proxy(None, None,
                                     [list_size |-> 0, size |-> 0])]
    ELSE [ok |-> TRUE,
          proxy |-> arrow_proxy(None, None,
                                [list_size |-> list_size,
                                 size |-> count \div list_size])]

\* proxy.set_name(name) and, when given, proxy.set_metadata(arrow_metadata)
set_name_and_metadata(px, name, arrow_metadata) ==
    [px EXCEPT !.name = IF name.has THEN name ELSE @,
               !.metadata = IF arrow_metadata.has THEN arrow_metadata ELSE @]

\* fixed_shape_tensor_array(list_size, flat_values, tensor_metadata,
\* nullable), hand-written build; its third assertion reads flat_values
\* after it was moved into the storage
fixed_shape_tensor_array(list_size, count, tensor_metadata, ub) ==
    LET flat_values_size == IF ub = "stale" THEN count ELSE 0
        body(st) ==
            IF ~st.ok THEN NotBuilt("crash", tensor_metadata)
            ELSE IF ~fixed_is_valid(tensor_metadata)
            THEN NotBuilt("assert", tensor_metadata)
            ELSE IF list_size # compute_size(tensor_metadata)
            THEN NotBuilt("assert", tensor_metadata)
            ELSE IF ub = "trap" THEN NotBuilt("crash", tensor_metadata)
            ELSE IF st.proxy.storage.size * list_size
                      # (IF flat_values_size # 0 THEN flat_values_size
                         ELSE st.proxy.storage.size * list_size)
            THEN NotBuilt("assert", tensor_metadata)
            ELSE Built(fixed_init(st.proxy, tensor_metadata), tensor_metadata)
    IN  body(fixed_sized_list_array(list_size, count, ub))

\* fixed_shape_tensor_array(list_size, flat_values, tensor_metadata),
\* simdjson build
fixed_shape_tensor_array_simd(list_size, count, tensor_metadata, ub) ==
    LET body(st) ==
            IF ~st.ok THEN NotBuilt("crash", tensor_metadata)
            ELSE IF ~fixed_is_valid_seen(tensor_metadata)
            THEN NotBuilt("assert", tensor_metadata)
            ELSE IF list_size # compute_size(tensor_metadata)
            THEN NotBuilt("assert", tensor_metadata)
            ELSE Built(fixed_init_simd(st.proxy, tensor_metadata),
                       tensor_metadata)
    IN  body(fixed_sized_list_array(list_size, count, ub))

\* fixed_shape_tensor_array(list_size, flat_values, tensor_metadata, name,
\* arrow_metadata), simdjson build
fixed_shape_tensor_array_named(list_size, count, tensor_metadata, name, arrow_metadata, ub) ==
    LET body(st) ==
            IF ~st.ok THEN NotBuilt("crash", tensor_metadata)
            ELSE IF ~fixed_is_valid_seen(tensor_metadata)
            THEN NotBuilt("assert", tensor_metadata)
            ELSE IF list_size # compute_size(tensor_metadata)
            THEN NotBuilt("assert", tensor_metadata)
            ELSE Built(fixed_init_simd(
                         set_name_and_metadata(st.proxy, name, arrow_metadata),
                         tensor_metadata),
                       tensor_metadata)
    IN  body(fixed_sized_list_array(list_size, count, ub))

\* fixed_shape_tensor_array::finalize_construction: declared in the header,
\* called by its template constructors; it tags the storage with init
finalize_construction(px, tensor_metadata) ==
    fixed_init_simd(px, tensor_metadata)

\* the template constructors of the header (validity bitmap; validity
\* bitmap, optional name, optional arrow_metadata)
fixed_shape_tensor_array_validity(list_size, count, tensor_metadata, name, arrow_metadata, ub) ==
    LET body(st) ==
            IF ~st.ok THEN NotBuilt("crash", tensor_metadata)
            ELSE IF ~fixed_is_valid_seen(tensor_metadata)
            THEN NotBuilt("assert", tensor_metadata)
            ELSE IF list_size # compute_size(tensor_metadata)
            THEN NotBuilt("assert", tensor_metadata)
            ELSE Built(finalize_construction(
                         set_name_and_metadata(st.proxy, name, arrow_metadata),
                         tensor_metadata),
                       tensor_metadata)
    IN  body(fixed_sized_list_array(list_size, count, ub))

\* what a reconstruction leaves: the proxy as storage, the decoded metadata
Wrapped(px, m) ==
    [ok |-> TRUE, err |-> "", proxy |-> px, m_metadata |-> m, encodes |-> 0]

\* fixed_shape_tensor_array(arrow_proxy), hand-written build
fixed_shape_tensor_array_proxy(px) ==
    LET body(r) ==
            IF ~r.ok THEN NotBuilt(r.err, r.val)
            ELSE IF ~fixed_is_valid(r.val) THEN NotBuilt("assert", r.val)
            ELSE Wrapped(px, r.val)
    IN  body(fixed_extract_metadata(px))

\* fixed_shape_tensor_array(arrow_proxy), simdjson build
fixed_shape_tensor_array_proxy_simd(px) ==
    LET body(r) ==
            IF ~r.ok THEN NotBuilt(r.err, r.val)
            ELSE IF ~fixed_is_valid_seen(r.val) THEN NotBuilt("assert", r.val)
            ELSE Wrapped(px, r.val)
    IN  body(fixed_extract_metadata_simd(px))

\* detail::make_tensor_struct: a struct of the two fields "data" and
\* "shape"; the header compares neither their lengths nor the list width
\* of tensor_shapes with anything.  What sparrow::struct_array does with
\* fields of different lengths is not part of the repository: either it
\* refuses them or it takes the length of the first
StructOutcomes == {"refuse", "first"}

make_tensor_struct(data_size, shape_size, width, so) ==
    IF data_size # shape_size /\ so = "refuse" THEN [ok |-> FALSE]
    ELSE [ok |-> TRUE,
          proxy |-> arrow_proxy(None, None,
                                [children |-> 2, size |-> data_size,
                                 width |-> width])]

\* a validate_and_init that does not compare ndim with the metadata's rank
validate_and_init_unchecked(px, m_metadata, ndim, name, arrow_metadata) ==
    IF ~variable_is_valid(m_metadata) THEN NotBuilt("assert", m_metadata)
    ELSE Built(variable_init(set_name_and_metadata(px, name, arrow_metadata),
                             m_metadata),
               m_metadata)

\* variable_shape_tensor_array::validate_and_init
validate_and_init(px, m_metadata, ndim, name, arrow_metadata) ==
    IF ~variable_is_valid(m_metadata) THEN NotBuilt("assert", m_metadata)
    ELSE IF get_ndim(m_metadata).has /\ ndim # get_ndim(m_metadata).val
    THEN NotBuilt("assert", m_metadata)
    ELSE Built(variable_init(set_name_and_metadata(px, name, arrow_metadata),
                             m_metadata),
               m_metadata)

\* variable_shape_tensor_array(ndim, tensor_data, tensor_shapes,
\* tensor_metadata [, name, arrow_metadata])
variable_shape_tensor_array(ndim, data_size, shape_size, width, tensor_metadata, name, arrow_metadata, so) ==
    LET body(st) ==
            IF ~st.ok THEN NotBuilt("assert", tensor_metadata)
            ELSE validate_and_init(st.proxy, tensor_metadata, ndim, name,
                                   arrow_metadata)
    IN  body(make_tensor_struct(data_size, shape_size, width, so))

\* variable_shape_tensor_array(arrow_proxy)
variable_shape_tensor_array_proxy(px) ==
    LET body(r) ==
            IF ~r.ok THEN NotBuilt(r.err, r.val)
            ELSE IF ~variable_is_valid(r.val) THEN NotBuilt("assert", r.val)
            ELSE Wrapped(px, r.val)
    IN  body(variable_extract_metadata(px))

\* fixed_shape_tensor_array::size, variable_shape_tensor_array::size
size(a) == a.proxy.storage.size

\* fixed_shape_tensor_array::shape
shape(a) == a.m_metadata.shape

\* fixed_shape_tensor_array::get_metadata
get_metadata(a) == a.m_metadata

\* variable_shape_tensor_array::ndim
variable_ndim(a) == get_ndim(a.m_metadata)

\* variable_shape_tensor_array::is_valid
variable_array_is_valid(a) ==
    a.proxy.storage.children = 2 /\ variable_is_valid(a.m_metadata)

(***************************************************************************)
(* The state machine of the arrays: either an arrow proxy is at hand (as   *)
(* read from a file or a stream) and init, extract_metadata or a           *)
(* reconstruction acts on it, or none is (NoProxy) and a constructor       *)
(* builds an array from values.                                            *)
(***************************************************************************)
ArrayFixed ==
    TextFixed
    \cup {[shape |-> <<1, 2>>, dim_names |-> None,
           permutation |-> Some(<<1, 0>>)]}

ArrayVariable == TextVariable

ArrayMetas(k) == IF k = "fixed" THEN ArrayFixed ELSE ArrayVariable

\* m.to_json() of either metadata type
to_json_of(k, m) ==
    IF k = "fixed" THEN fixed_to_json(m) ELSE variable_to_json(m)

\* the pairs a metadata list is made of: an unrelated one, the name entry
\* of this extension and of another one, the metadata entry holding the
\* encoding of m and one holding nothing
Pairs(k, m) ==
    {metadata_pair("key", <<"v">>),
     metadata_pair("ARROW:extension:name", EXTENSION_NAME(k)),
     metadata_pair("ARROW:extension:name", <<"arrow.uuid">>),
     metadata_pair("ARROW:extension:metadata", to_json_of(k, m)),
     metadata_pair("ARROW:extension:metadata", <<>>)}

MetadataLists(k, m) == Opt(SeqsUpTo(Pairs(k, m), MaxPairs))

\* the storage a proxy at hand describes
Storages(k) ==
    IF k = "fixed"
    THEN {[list_size |-> n, size |-> 1] : n \in {2, 3}}
    ELSE {[children |-> 2, size |-> 1, width |-> w] : w \in 0..2}

Names == {None, Some(<<"t">>)}

\* the list sizes and the dimension counts a caller declares
Declared == 0..3

InitArray ==
    \E k \in {"fixed", "variable"} :
        \E m \in ArrayMetas(k) :
            /\ kind = k
            /\ meta = m
            /\ proxy \in {NoProxy}
                   \cup {arrow_proxy(None, l, s) :
                            l \in MetadataLists(k, m), s \in Storages(k)}
            /\ tensor = NoArray
            /\ text = <<>>
            /\ res = NoRes
            /\ chk = NoChk
            /\ pc = "init"
            /\ base = <<>>
            /\ bres = NoRes

\* the record of a call of init: the list before the call, the list the
\* first call left, and the number of calls so far
InitCall(build, r, calls) ==
    [op |-> "init", build |-> build, ok |-> r.ok, err |-> r.err,
     before |-> proxy.metadata,
     first |-> IF calls = 0 THEN r.proxy.metadata ELSE tensor.first,
     calls |-> calls + 1, encodes |-> r.encodes]

\* the number of init calls made on the proxy at hand
InitCalls == IF tensor.op = "init" THEN tensor.calls ELSE 0

\* init(proxy, meta) of either fixed-shape build, once or twice
FixedInit ==
    /\ kind = "fixed"
    /\ proxy # NoProxy
    /\ pc \in {"init", "tagged"}
    /\ InitCalls < 2
    /\ \E build \in {"scan", "simd"} :
          /\ InitCalls = 1 => build = tensor.build
          /\ LET call(r) ==
                    /\ proxy' = r.proxy
                    /\ tensor' = InitCall(build, r, InitCalls)
                    /\ pc' = IF r.ok THEN "tagged" ELSE "failed"
             IN  IF build = "scan" THEN call(fixed_init(proxy, meta))
                 ELSE call(fixed_init_simd(proxy, meta))
    /\ UNCHANGED <<kind, meta, text, res, chk, base, bres>>

\* init(proxy, meta) of the variable-shape extension, once or twice
VariableInit ==
    /\ kind = "variable"
    /\ proxy # NoProxy
    /\ pc \in {"init", "tagged"}
    /\ InitCalls < 2
    /\ LET call(r) ==
              /\ proxy' = r.proxy
              /\ tensor' = InitCall("dom", r, InitCalls)
              /\ pc' = IF r.ok THEN "tagged" ELSE "failed"
       IN  call(variable_init(proxy, meta))
    /\ UNCHANGED <<kind, meta, text, res, chk, base, bres>>

\* the record of an extract_metadata call
Extracted(build, r) ==
    [op |-> "extract", build |-> build, ok |-> r.ok, err |-> r.err,
     val |-> r.val]

FixedExtractMetadata ==
    /\ kind = "fixed"
    /\ proxy # NoProxy
    /\ pc = "init"
    /\ \E build \in {"scan", "simd"} :
          tensor' = IF build = "scan"
                    THEN Extracted(build, fixed_extract_metadata(proxy))
                    ELSE Extracted(build, fixed_extract_metadata_simd(proxy))
    /\ pc' = "extracted"
    /\ UNCHANGED <<kind, meta, proxy, text, res, chk, base, bres>>

VariableExtractMetadata ==
    /\ kind = "variable"
    /\ proxy # NoProxy
    /\ pc = "init"
    /\ tensor' = Extracted("dom", variable_extract_metadata(proxy))
    /\ pc' = "extracted"
    /\ UNCHANGED <<kind, meta, proxy, text, res, chk, base, bres>>

\* the record of a reconstruction from the proxy at hand
Reconstructed(build, a) ==
    [op |-> "reconstruct", build |-> build, ok |-> a.ok, err |-> a.err,
     m_metadata |-> a.m_metadata, encodes |-> a.encodes,
     before |-> proxy.metadata]

FixedReconstruct ==
    /\ kind = "fixed"
    /\ proxy # NoProxy
    /\ pc = "init"
    /\ \E build \in {"scan", "simd"} :
          tensor' = IF build = "scan"
                    THEN Reconstructed(build,
                                       fixed_shape_tensor_array_proxy(proxy))
                    ELSE Reconstructed(build,
                                       fixed_shape_tensor_array_proxy_simd(proxy))
    /\ pc' = IF tensor'.ok THEN "built" ELSE "failed"
    /\ UNCHANGED <<kind, meta, proxy, text, res, chk, base, bres>>

VariableReconstruct ==
    /\ kind = "variable"
    /\ proxy # NoProxy
    /\ pc = "init"
    /\ tensor' = Reconstructed("dom", variable_shape_tensor_array_proxy(proxy))
    /\ pc' = IF tensor'.ok THEN "built" ELSE "failed"
    /\ UNCHANGED <<kind, meta, proxy, text, res, chk, base, bres>>

\* the record of a fresh construction: the constructor, what the caller
\* passed, and the object
Fresh(ctor, declared, count, name, arrow_metadata, a) ==
    [op |-> "fresh", build |-> ctor, ok |-> a.ok, err |-> a.err,
     m_metadata |-> a.m_metadata, encodes |-> a.encodes,
     declared |-> declared, count |-> count, name |-> name,
     before |-> arrow_metadata]

\* the array leaves the constructor, or nothing does
Construct(a, record) ==
    /\ proxy' = a.proxy
    /\ tensor' = record
    /\ pc' = IF a.ok THEN "built" ELSE "failed"
    /\ UNCHANGED <<kind, meta, text, res, chk, base, bres>>

\* fixed_shape_tensor_array(list_size, flat_values, tensor_metadata,
\* nullable) of the hand-written build
FixedArray ==
    /\ kind = "fixed"
    /\ proxy = NoProxy
    /\ pc = "init"
    /\ \E list_size \in Declared \cup {compute_size(meta)},
          count \in 0..MaxValues, ub \in UndefinedOutcomes :
          LET make(a) ==
                  Construct(a, Fresh("scan", list_size, count, None, None, a))
          IN  make(fixed_shape_tensor_array(list_size, count, meta, ub))

\* fixed_shape_tensor_array(list_size, flat_values, tensor_metadata) of the
\* simdjson build
FixedArraySimd ==
    /\ kind = "fixed"
    /\ proxy = NoProxy
    /\ pc = "init"
    /\ \E list_size \in Declared \cup {compute_size(meta)},
          count \in 0..MaxValues, ub \in UndefinedOutcomes :
          LET make(a) ==
                  Construct(a, Fresh("simd", list_size, count, None, None, a))
          IN  make(fixed_shape_tensor_array_simd(list_size, count, meta, ub))

\* fixed_shape_tensor_array(list_size, flat_values, tensor_metadata, name,
\* arrow_metadata) of the simdjson build
FixedArrayNamed ==
    /\ kind = "fixed"
    /\ proxy = NoProxy
    /\ pc = "init"
    /\ \E list_size \in Declared \cup {compute_size(meta)},
          count \in 0..MaxValues, ub \in UndefinedOutcomes,
          name \in Names \ {None},
          arrow_metadata \in MetadataLists("fixed", meta) :
          LET make(a) ==
                  Construct(a, Fresh("named", list_size, count, name,
                                     arrow_metadata, a))
          IN  make(fixed_shape_tensor_array_named(list_size, count, meta,
                                                  name, arrow_metadata, ub))

\* the template constructors of the header
FixedArrayValidity ==
    /\ kind = "fixed"
    /\ proxy = NoProxy
    /\ pc = "init"
    /\ \E list_size \in Declared \cup {compute_size(meta)},
          count \in 0..MaxValues, ub \in UndefinedOutcomes,
          name \in Names,
          arrow_metadata \in MetadataLists("fixed", meta) :
          LET make(a) ==
                  Construct(a, Fresh("validity", list_size, count, name,
                                     arrow_metadata, a))
          IN  make(fixed_shape_tensor_array_validity(list_size, count, meta,
                                                     name, arrow_metadata, ub))

\* both constructors of variable_shape_tensor_array from values; width and
\* rows are what the record of the call keeps of tensor_shapes and
\* tensor_data
VariableArray ==
    /\ kind = "variable"
    /\ proxy = NoProxy
    /\ pc = "init"
    /\ \E ndim \in Declared, data_size \in 0..1, shape_size \in 0..1,
          width \in Declared, so \in StructOutcomes, name \in Names,
          arrow_metadata \in MetadataLists("variable", meta) :
          LET make(a) ==
                  Construct(a,
                            [Fresh("dom", ndim, data_size, name,
                                   arrow_metadata, a)
                             EXCEPT !.count = <<data_size, shape_size>>])
          IN  make(variable_shape_tensor_array(ndim, data_size, shape_size,
                                               width, meta, name,
                                               arrow_metadata, so))

\* m_storage[i]: the i-th element of the storage (operator[] of either
\* array type; its precondition is i < size())
subscript(a, i) == [index |-> i]

\* fixed_shape_tensor_array::at: declared and documented in the header
\* (throws std::out_of_range if i >= size()), its body is not in the sources
fixed_at(a, i) ==
    IF i >= size(a) THEN Failed("out_of_range", <<>>)
    ELSE Returned(subscript(a, i))

\* an at that lets the index size() through
variable_at_inclusive(a, i) ==
    IF i > size(a) THEN Failed("out_of_range", <<>>)
    ELSE Returned(subscript(a, i))

\* variable_shape_tensor_array::at
variable_at(a, i) ==
    IF i >= size(a) THEN Failed("out_of_range", <<>>)
    ELSE Returned(subscript(a, i))

\* the array object of the state: its storage and its m_metadata
TheArray == [proxy |-> proxy, m_metadata |-> tensor.m_metadata]

\* the record of a call of at(i) on the array: what it gave, and the array
\* as it was before the call
Accessed(i, r) ==
    [op |-> "at", i |-> i, ok |-> r.ok, err |-> r.err, val |-> r.val,
     before |-> <<proxy, tensor>>]

\* at(i) on a fixed-shape array that was built
FixedAt ==
    /\ kind = "fixed"
    /\ pc = "built"
    /\ \E i \in 0..MaxIndex : chk' = Accessed(i, fixed_at(TheArray, i))
    /\ UNCHANGED <<kind, meta, proxy, tensor, text, res, pc, base, bres>>

\* at(i) on a variable-shape array that was built
VariableAt ==
    /\ kind = "variable"
    /\ pc = "built"
    /\ \E i \in 0..MaxIndex : chk' = Accessed(i, variable_at(TheArray, i))
    /\ UNCHANGED <<kind, meta, proxy, tensor, text, res, pc, base, bres>>

NextArray ==
    \/ FixedInit
    \/ VariableInit
    \/ FixedExtractMetadata
    \/ VariableExtractMetadata
    \/ FixedReconstruct
    \/ VariableReconstruct
    \/ FixedArray
    \/ FixedArraySimd
    \/ FixedArrayNamed
    \/ FixedArrayValidity
    \/ VariableArray
    \/ FixedAt
    \/ VariableAt

\* init, extract_metadata and the constructors on small proxies and values
SpecArray == InitArray /\ [][NextArray]_vars

(***************************************************************************)
(* compute_size at the width of std::int64_t.  A 64-bit value is the       *)
(* sequence of its eight bytes, lowest first, in two's complement; a       *)
(* product is formed in full and then cut to eight bytes, and a product of *)
(* positive factors that does not fit 63 bits is a signed overflow, which  *)
(* is undefined: the build may trap or keep the wrapped value.             *)
(***************************************************************************)
RECURSIVE ToBytes(_, _)
\* the k lowest bytes of the natural number n
ToBytes(n, k) ==
    IF k = 0 THEN <<>> ELSE <<n % 256>> \o ToBytes(n \div 256, k - 1)

\* std::int64_t{n} for a small natural number n
Int64(n) == ToBytes(n, 8)

\* 2^e for e in 0..63 as a 64-bit pattern
Pow2(e) ==
    [i \in 1..8 |-> IF i = (e \div 8) + 1 THEN 2^(e % 8)
                    ELSE 0]

\* INT64_MAX
Int64Max == [i \in 1..8 |-> IF i = 8 THEN 127 ELSE 255]

\* column k of the schoolbook product: the sum of a[i] * b[k + 1 - i]
SumTo(a, b, k) ==
    LET term(i) ==
            IF i >= 1 /\ i <= 8 /\ k + 1 - i >= 1 /\ k + 1 - i <= 8
            THEN a[i] * b[k + 1 - i] ELSE 0
    IN  term(1) + term(2) + term(3) + term(4)
        + term(5) + term(6) + term(7) + term(8)

RECURSIVE Carry(_, _, _, _)
\* the bytes of the full product from column k on, carry coming in
Carry(a, b, k, carry) ==
    IF k > 16 THEN <<>>
    ELSE LET column(c) == <<c % 256>> \o Carry(a, b, k + 1, c \div 256)
         IN  column(SumTo(a, b, k) + carry)

\* the sixteen bytes of the product of two 64-bit patterns read as naturals
FullProduct(a, b) == Carry(a, b, 1, 0)

IsNegative(v) == v[8] >= 128

IsZero(v) == \A i \in 1..8 : v[i] = 0

\* v > 0
IsPositive(v) == ~IsNegative(v) /\ ~IsZero(v)

\* std::multiplies<std::int64_t> on non-negative factors: the low eight
\* bytes, and whether the true product is beyond INT64_MAX
multiplies(a, b) ==
    LET cut(p) ==
            [val |-> SubSeq(p, 1, 8),
             overflow |-> p[8] >= 128 \/ \E i \in 9..16 : p[i] # 0]
    IN  cut(FullProduct(a, b))

RECURSIVE accumulate_int64(_, _, _)
\* std::accumulate / std::reduce over the shape with std::multiplies; once a
\* product has overflowed the behaviour is undefined for good
accumulate_int64(dims, acc, overflowed) ==
    IF Len(dims) = 0 THEN [val |-> acc, overflow |-> overflowed]
    ELSE LET step(m) ==
                 accumulate_int64(Tail(dims), m.val,
                                  overflowed \/ m.overflow \/ IsNegative(acc)
                                  \/ IsNegative(Head(dims)))
         IN  step(multiplies(acc, Head(dims)))

\* fixed_shape_tensor_extension::metadata::compute_size in 64 bits
compute_size_int64(m) == accumulate_int64(m.shape, Int64(1), FALSE)

\* the sign of each shape entry: is_valid looks at a shape entry only
\* through the test dim <= 0 (dim > 0 in the simdjson build)
Signs(m) ==
    [m EXCEPT !.shape =
        [i \in 1..Len(m.shape) |->
            IF IsNegative(m.shape[i]) THEN -1
            ELSE IF IsZero(m.shape[i]) THEN 0 ELSE 1]]

\* is_valid of either build on a metadata value with 64-bit shape entries
is_valid_int64(m) == fixed_is_valid(Signs(m))

\* the 64-bit shape entries that are enumerated
WideDims ==
    {Int64(0), Int64(1), Int64(2), Int64(3), Pow2(31), Pow2(32), Pow2(62),
     Int64Max, Pow2(63)}

WideFixed ==
    {[shape |-> s, dim_names |-> None, permutation |-> None] :
        s \in SeqsUpTo(WideDims, MaxRank)}

InitSize ==
    /\ kind = "fixed"
    /\ meta \in WideFixed
    /\ proxy = NoProxy
    /\ tensor = NoArray
    /\ text = <<>>
    /\ res = NoRes
    /\ chk = NoChk
    /\ pc = "init"
    /\ base = <<>>
    /\ bres = NoRes

\* is_valid() and compute_size() on the metadata; a signed overflow either
\* traps or leaves the wrapped value
ComputeSize ==
    /\ pc = "init"
    /\ LET call(r) ==
              \E ub \in {"trap", "wrap"} :
                 /\ ub = "trap" => r.overflow
                 /\ chk' = [op |-> "compute_size",
                            valid |-> is_valid_int64(meta),
                            overflow |-> r.overflow,
                            ok |-> ub # "trap",
                            val |-> IF ub = "trap" THEN <<>> ELSE r.val]
       IN  call(compute_size_int64(meta))
    /\ pc' = "sized"
    /\ UNCHANGED <<kind, meta, proxy, tensor, text, res, base, bres>>

NextSize == ComputeSize

\* compute_size on shapes with entries up to INT64_MAX
SpecSize == InitSize /\ [][NextSize]_vars

(***************************************************************************)
(* The hand-written scanner, one loop iteration at a time.  The state of   *)
(* a run is the cursor pos, the stack of program points of the lambdas     *)
(* under way (each with the cursor at which its loop was last entered),    *)
(* the values the lambdas returned last (num of read_int, str of           *)
(* read_string, ints of read_int_array, strs of read_string_array), and    *)
(* the locals start, key and result.                                       *)
(***************************************************************************)
Frame(pt) == [pt |-> pt, head |-> 0]

\* from_json entered: the first skip_whitespace() is under way
ScanStart ==
    [op |-> "scan", pos |-> 1, stack |-> <<Frame("m1"), Frame("ws")>>,
     num |-> 0, str |-> <<>>, ints |-> <<>>, strs |-> <<>>,
     start |-> 1, key |-> <<>>,
     result |-> EmptyFixed, outcome |-> "running"]

\* the program point the run is at
TopPt(c) == IF Len(c.stack) = 0 THEN "" ELSE c.stack[Len(c.stack)].pt

\* go on at program point pt of the same lambda
jump(c, pt) == [c EXCEPT !.stack[Len(c.stack)].pt = pt]

\* enter the loop at pt, noting the cursor
enter_loop(c, pt) ==
    [c EXCEPT !.stack[Len(c.stack)] = [pt |-> pt, head |-> c.pos]]

\* call the lambda that starts at callee and go on at ret afterwards
call(c, ret, callee) ==
    [c EXCEPT !.stack = Append([c.stack EXCEPT ![Len(c.stack)].pt = ret],
                               Frame(callee))]

\* return from the lambda under way
return(c) == [c EXCEPT !.stack = SubSeq(c.stack, 1, Len(c.stack) - 1)]

\* an exception leaves from_json
throw(c, e) == [c EXCEPT !.stack = <<>>, !.outcome = e]

\* a whitespace loop that does not move the cursor
skip_whitespace_stuck(c, s) ==
    IF c.pos <= Len(s) /\ IsSpace(s[c.pos]) THEN c
    ELSE return(c)

\* one iteration of the loop of skip_whitespace
skip_whitespace_step(c, s) ==
    IF c.pos <= Len(s) /\ IsSpace(s[c.pos]) THEN [c EXCEPT !.pos = @ + 1]
    ELSE return(c)

\* read_string: its start, and one iteration of its loop
read_string_step(c, s) ==
    CASE TopPt(c) = "rs" -> call(c, "rs1", "ws")
      [] TopPt(c) = "rs1" ->
            IF c.pos > Len(s) \/ s[c.pos] # DQ THEN throw(c, "runtime_error")
            ELSE jump([c EXCEPT !.pos = @ + 1, !.start = c.pos + 1], "rs2")
      [] TopPt(c) = "rs2" ->
            IF c.pos <= Len(s) /\ s[c.pos] # DQ THEN [c EXCEPT !.pos = @ + 1]
            ELSE IF c.pos > Len(s) THEN throw(c, "runtime_error")
            ELSE return([c EXCEPT !.pos = @ + 1,
                                  !.str = SubSeq(s, c.start, c.pos - 1)])

\* read_int: its start, and one iteration of its digit loop
read_int_step(c, s) ==
    CASE TopPt(c) = "ri" -> call(c, "ri1", "ws")
      [] TopPt(c) = "ri1" ->
            jump([c EXCEPT !.start = c.pos,
                           !.pos = IF c.pos <= Len(s)
                                      /\ s[c.pos] \in {"-", "+"}
                                   THEN @ + 1 ELSE @],
                 "ri2")
      [] TopPt(c) = "ri2" ->
            LET convert(n) ==
                    IF n.ok THEN return([c EXCEPT !.num = n.val])
                    ELSE throw(c, n.err)
            IN  IF c.pos <= Len(s) /\ IsDigit(s[c.pos])
                THEN [c EXCEPT !.pos = @ + 1]
                ELSE convert(stoll(SubSeq(s, c.start, c.pos - 1)))

\* read_int_array (p = "i", elements by "ri") and read_string_array
\* (p = "s", elements by "rs"): the start of either and its loop
array_step(c, s, p, element) ==
    CASE TopPt(c) = p \o "a" ->
            call(IF p = "i" THEN [c EXCEPT !.ints = <<>>]
                 ELSE [c EXCEPT !.strs = <<>>],
                 p \o "a1", "ws")
      [] TopPt(c) = p \o "a1" ->
            IF c.pos > Len(s) \/ s[c.pos] # "[" THEN throw(c, "runtime_error")
            ELSE call([c EXCEPT !.pos = @ + 1], p \o "a2", "ws")
      [] TopPt(c) = p \o "a2" ->
            IF c.pos <= Len(s) /\ s[c.pos] = "]"
            THEN return([c EXCEPT !.pos = @ + 1])
            ELSE enter_loop(c, p \o "a3")
      [] TopPt(c) = p \o "a3" -> call(c, p \o "a4", element)
      [] TopPt(c) = p \o "a4" ->
            call(IF p = "i" THEN [c EXCEPT !.ints = Append(@, c.num)]
                 ELSE [c EXCEPT !.strs = Append(@, c.str)],
                 p \o "a5", "ws")
      [] TopPt(c) = p \o "a5" ->
            IF c.pos > Len(s) THEN throw(c, "runtime_error")
            ELSE IF s[c.pos] = "]"
            THEN return([c EXCEPT !.pos = @ + 1])
            ELSE IF s[c.pos] # "," THEN throw(c, "runtime_error")
            ELSE enter_loop([c EXCEPT !.pos = @ + 1], p \o "a3")

\* the body of from_json: the opening brace, the object loop and the checks
\* after it
from_json_step(c, s) ==
    CASE TopPt(c) = "m1" ->
            IF c.pos > Len(s) \/ s[c.pos] # "{" THEN throw(c, "runtime_error")
            ELSE enter_loop([c EXCEPT !.pos = @ + 1], "obj")
      [] TopPt(c) = "obj" -> call(c, "obj1", "ws")
      [] TopPt(c) = "obj1" ->
            IF c.pos > Len(s) THEN throw(c, "runtime_error")
            ELSE IF s[c.pos] = "}" THEN jump([c EXCEPT !.pos = @ + 1], "fin")
            ELSE call(c, "obj2", "rs")
      [] TopPt(c) = "obj2" -> call([c EXCEPT !.key = c.str], "obj3", "ws")
      [] TopPt(c) = "obj3" ->
            IF c.pos > Len(s) \/ s[c.pos] # ":" THEN throw(c, "runtime_error")
            ELSE IF c.key \in {Chars("shape"), Chars("permutation")}
            THEN call([c EXCEPT !.pos = @ + 1], "obj4", "ia")
            ELSE IF c.key = Chars("dim_names")
            THEN call([c EXCEPT !.pos = @ + 1], "obj4", "sa")
            ELSE throw(c, "runtime_error")
      [] TopPt(c) = "obj4" ->
            call([c EXCEPT !.result =
                     IF c.key = Chars("shape") THEN [@ EXCEPT !.shape = c.ints]
                     ELSE IF c.key = Chars("dim_names")
                     THEN [@ EXCEPT !.dim_names = Some(c.strs)]
                     ELSE [@ EXCEPT !.permutation = Some(c.ints)]],
                 "obj5", "ws")
      [] TopPt(c) = "obj5" ->
            IF c.pos > Len(s) THEN throw(c, "runtime_error")
            ELSE IF s[c.pos] = "}" THEN jump([c EXCEPT !.pos = @ + 1], "fin")
            ELSE IF s[c.pos] # "," THEN throw(c, "runtime_error")
            ELSE enter_loop([c EXCEPT !.pos = @ + 1], "obj")
      [] TopPt(c) = "fin" ->
            IF Len(c.result.shape) = 0 THEN throw(c, "runtime_error")
            ELSE IF ~fixed_is_valid(c.result) THEN throw(c, "runtime_error")
            ELSE [c EXCEPT !.stack = <<>>, !.outcome = "returned"]

(***************************************************************************)
(* State machine of one run of the scanner over a text: chk is the run     *)
(***************************************************************************)
InitScan == \E m \in TextFixed : Start("fixed", m)

\* the environment puts whitespace between all tokens of an encoded text
PadText ==
    /\ pc = "encoded"
    /\ \E run \in WsRuns : text' = InsertEverywhere(text, run)
    /\ pc' = "mutated"
    /\ UNCHANGED <<kind, meta, proxy, tensor, res, chk, base, bres>>

\* from_json(text) is called
ScanBegin ==
    /\ pc \in {"encoded", "mutated"}
    /\ chk' = ScanStart
    /\ pc' = "scanning"
    /\ UNCHANGED <<kind, meta, proxy, tensor, text, res, base, bres>>

\* the run goes on from c, or from_json is left
Continue(c) ==
    /\ chk' = c
    /\ pc' = IF c.outcome = "running" THEN "scanning" ELSE "done"
    /\ res' = IF c.outcome = "running" THEN res
              ELSE [res EXCEPT !.scan =
                       IF c.outcome = "returned" THEN Returned(c.result)
                       ELSE Failed(c.outcome, EmptyFixed)]
    /\ UNCHANGED <<kind, meta, proxy, tensor, text, base, bres>>

SkipWhitespaceStep ==
    /\ pc = "scanning"
    /\ TopPt(chk) = "ws"
    /\ Continue(skip_whitespace_step(chk, text))

ReadStringStep ==
    /\ pc = "scanning"
    /\ TopPt(chk) \in {"rs", "rs1", "rs2"}
    /\ Continue(read_string_step(chk, text))

ReadIntStep ==
    /\ pc = "scanning"
    /\ TopPt(chk) \in {"ri", "ri1", "ri2"}
    /\ Continue(read_int_step(chk, text))

ReadIntArrayStep ==
    /\ pc = "scanning"
    /\ TopPt(chk) \in {"ia", "ia1", "ia2", "ia3", "ia4", "ia5"}
    /\ Continue(array_step(chk, text, "i", "ri"))

ReadStringArrayStep ==
    /\ pc = "scanning"
    /\ TopPt(chk) \in {"sa", "sa1", "sa2", "sa3", "sa4", "sa5"}
    /\ Continue(array_step(chk, text, "s", "rs"))

FromJsonStep ==
    /\ pc = "scanning"
    /\ TopPt(chk) \in {"m1", "obj", "obj1", "obj2", "obj3", "obj4", "obj5",
                       "fin"}
    /\ Continue(from_json_step(chk, text))

\* the steps of the scanner itself
ScanSteps ==
    \/ SkipWhitespaceStep
    \/ ReadStringStep
    \/ ReadIntStep
    \/ ReadIntArrayStep
    \/ ReadStringArrayStep
    \/ FromJsonStep

NextScan ==
    \/ FixedToJson
    \/ DeleteChar
    \/ InsertChar
    \/ AddUnknownKey
    \/ PadText
    \/ ScanBegin
    \/ SkipWhitespaceStep
    \/ ReadStringStep
    \/ ReadIntStep
    \/ ReadIntArrayStep
    \/ ReadStringArrayStep
    \/ FromJsonStep

\* one call of from_json on an encoded, corrupted or padded text; a call
\* that can take a step takes one
SpecScan == InitScan /\ [][NextScan]_vars /\ WF_vars(ScanSteps)

(***************************************************************************)
(* uniform_shape entries beyond 32 bits.  An entry written in a text is    *)
(* null or a number [negative, digits].                                    *)
(***************************************************************************)
\* 3, 2^31 - 1, 2^31, 2^32 - 1, 2^32, 2^32 + 3, 2^33 + 1, 2^63 - 1, 2^63
WideDigits ==
    {<<"3">>,
     <<"2", "1", "4", "7", "4", "8", "3", "6", "4", "7">>,
     <<"2", "1", "4", "7", "4", "8", "3", "6", "4", "8">>,
     <<"4", "2", "9", "4", "9", "6", "7", "2", "9", "5">>,
     <<"4", "2", "9", "4", "9", "6", "7", "2", "9", "6">>,
     <<"4", "2", "9", "4", "9", "6", "7", "2", "9", "9">>,
     <<"8", "5", "8", "9", "9", "3", "4", "5", "9", "3">>,
     <<"9", "2", "2", "3", "3", "7", "2", "0", "3", "6", "8", "5", "4", "7", "7", "5", "8", "0", "7">>,
     <<"9", "2", "2", "3", "3", "7", "2", "0", "3", "6", "8", "5", "4", "7", "7", "5", "8", "0", "8">>}

\* the digits of -1, -2^31, -2^31 - 1 and -2^32 + 3
WideNegativeDigits ==
    {<<"1">>,
     <<"2", "1", "4", "7", "4", "8", "3", "6", "4", "8">>,
     <<"2", "1", "4", "7", "4", "8", "3", "6", "4", "9">>,
     <<"4", "2", "9", "4", "9", "6", "7", "2", "9", "3">>}

Written(negative, digits) ==
    [null |-> FALSE, negative |-> negative, digits |-> digits]

WrittenNull == [null |-> TRUE, negative |-> FALSE, digits |-> <<>>]

WideEntries ==
    {WrittenNull}
    \cup {Written(FALSE, d) : d \in WideDigits}
    \cup {Written(TRUE, d) : d \in WideNegativeDigits}

\* the text of one entry
entry_text(e) ==
    IF e.null THEN Chars("null")
    ELSE (IF e.negative THEN <<"-">> ELSE <<>>) \o e.digits

\* the entries between brackets, separated by commas
RECURSIVE entries_text(_)
entries_text(es) ==
    IF es = <<>> THEN <<>>
    ELSE IF Len(es) = 1 THEN entry_text(es[1])
    ELSE entry_text(es[1]) \o <<",">> \o entries_text(Tail(es))

\* {"uniform_shape":[...]} with those entries
uniform_shape_text(es) ==
    <<"{">> \o Quoted(Chars("uniform_shape")) \o <<":", "[">>
    \o entries_text(es) \o <<"]", "}">>

InitNarrow == Start("variable", EmptyVariable)

\* the environment writes a metadata text whose uniform_shape holds up to
\* MaxRank entries; chk keeps what was written
WriteUniformShape ==
    /\ pc = "init"
    /\ \E es \in SeqsUpTo(WideEntries, MaxRank) :
          /\ text' = uniform_shape_text(es)
          /\ chk' = [op |-> "write", entries |-> es]
    /\ pc' = "encoded"
    /\ UNCHANGED <<kind, meta, proxy, tensor, res, base, bres>>

NextNarrow == WriteUniformShape \/ VariableFromJson

\* variable-shape from_json on texts whose uniform_shape entries need up to
\* 64 bits
SpecNarrow == InitNarrow /\ [][NextNarrow]_vars

(***************************************************************************)
(* Properties of the validators (SpecValid)                                *)
(***************************************************************************)
\* perm holds each of 0..n-1 exactly once and nothing else
IsBijection(perm, n) ==
    /\ Len(perm) = n
    /\ \A v \in 0..(n - 1) : Cardinality({i \in 1..n : perm[i] = v}) = 1

FixedWellFormed(m) ==
    LET N == Len(m.shape)
    IN  /\ N > 0
        /\ \A i \in 1..N : m.shape[i] > 0
        /\ m.dim_names.has => Len(m.dim_names.val) = N
        /\ m.permutation.has => IsBijection(m.permutation.val, N)

\* C5: is_valid() of a fixed-shape value is true exactly when the shape is
\* non-empty and all positive, dim_names (if present) has the length of the
\* shape, and permutation (if present) has that length and holds each of
\* 0..N-1 exactly once; this holds for both builds of is_valid.
C5_FixedValidatorExact ==
    (pc = "checked" /\ kind = "fixed" /\ chk.op = "is_valid")
        => /\ chk.valid = FixedWellFormed(meta)
           /\ chk.valid_seen = FixedWellFormed(meta)

C5_Witness ==
    /\ pc = "checked" /\ kind = "fixed" /\ chk.op = "is_valid"
    /\ chk.valid /\ chk.valid_seen
    /\ Len(meta.shape) = 2 /\ meta.dim_names.has /\ meta.permutation.has
    /\ meta.permutation.val = <<1, 0>>

PresentLengths(m) ==
    (IF m.dim_names.has THEN {Len(m.dim_names.val)} ELSE {})
    \cup (IF m.permutation.has THEN {Len(m.permutation.val)} ELSE {})
    \cup (IF m.uniform_shape.has THEN {Len(m.uniform_shape.val)} ELSE {})

VariableWellFormed(m) ==
    /\ Cardinality(PresentLengths(m)) <= 1
    /\ m.permutation.has =>
          /\ Len(m.permutation.val) > 0
          /\ IsBijection(m.permutation.val, Len(m.permutation.val))
    /\ m.uniform_shape.has =>
          \A i \in 1..Len(m.uniform_shape.val) :
             m.uniform_shape.val[i].has => m.uniform_shape.val[i].val > 0

\* C6: is_valid() of a variable-shape value is false when two present fields
\* differ in length, when permutation is present and empty or no bijection
\* of 0..len-1, and when a non-null uniform_shape entry is <= 0; it is true
\* in every other case, also when all three fields are absent.
C6_VariableValidatorExact ==
    (pc = "checked" /\ kind = "variable" /\ chk.op = "is_valid")
        => chk.valid = VariableWellFormed(meta)

C6_Witness ==
    /\ pc = "checked" /\ kind = "variable" /\ chk.op = "is_valid"
    /\ chk.valid
    /\ meta.dim_names.has /\ meta.permutation.has /\ meta.uniform_shape.has
    /\ Len(meta.permutation.val) = 2
    /\ ~meta.uniform_shape.val[1].has

\* C7: get_ndim() is the length of the first present field in the order
\* dim_names, permutation, uniform_shape, and is unknown exactly when all
\* three are absent; on a value with is_valid() it is the length of every
\* present field.
C7_GetNdim ==
    (pc = "checked" /\ kind = "variable" /\ chk.op = "get_ndim")
        => /\ chk.ndim.has
                <=> (meta.dim_names.has \/ meta.permutation.has
                     \/ meta.uniform_shape.has)
           /\ meta.dim_names.has => chk.ndim.val = Len(meta.dim_names.val)
           /\ (~meta.dim_names.has /\ meta.permutation.has)
                => chk.ndim.val = Len(meta.permutation.val)
           /\ (~meta.dim_names.has /\ ~meta.permutation.has
               /\ meta.uniform_shape.has)
                => chk.ndim.val = Len(meta.uniform_shape.val)
           /\ variable_is_valid(meta)
                => \A n \in PresentLengths(meta) : chk.ndim.val = n

C7_Witness ==
    /\ pc = "checked" /\ kind = "variable" /\ chk.op = "get_ndim"
    /\ ~meta.dim_names.has /\ meta.permutation.has /\ meta.uniform_shape.has
    /\ variable_is_valid(meta)
    /\ chk.ndim = Some(2)

(***************************************************************************)
(* Properties of the codec on encoded values (Spec)                        *)
(***************************************************************************)
RECURSIVE JoinWith(_, _)
JoinWith(parts, sep) ==
    IF parts = <<>> THEN <<>>
    ELSE IF Len(parts) = 1 THEN parts[1]
    ELSE parts[1] \o sep \o JoinWith(Tail(parts), sep)

Member(key, items) ==
    Quoted(Chars(key)) \o <<":">> \o <<"[">> \o JoinWith(items, <<",">>)
    \o <<"]">>

\* the members in the fixed order, an absent optional field left out
CanonicalMembers(m) ==
    (IF kind = "fixed"
     THEN <<Member("shape", [i \in 1..Len(m.shape) |-> to_string(m.shape[i])])>>
     ELSE <<>>)
    \o (IF m.dim_names.has
        THEN <<Member("dim_names", [i \in 1..Len(m.dim_names.val) |->
                         <<DQ>> \o m.dim_names.val[i] \o <<DQ>>])>>
        ELSE <<>>)
    \o (IF m.permutation.has
        THEN <<Member("permutation", [i \in 1..Len(m.permutation.val) |->
                         to_string(m.permutation.val[i])])>>
        ELSE <<>>)
    \o (IF kind = "variable" /\ m.uniform_shape.has
        THEN <<Member("uniform_shape", [i \in 1..Len(m.uniform_shape.val) |->
                         IF m.uniform_shape.val[i].has
                         THEN to_string(m.uniform_shape.val[i].val)
                         ELSE <<"n", "u", "l", "l">>])>>
        ELSE <<>>)

CountSpaces(s) == Cardinality({i \in 1..Len(s) : IsSpace(s[i])})

RECURSIVE SumSpaces(_)
SumSpaces(names) ==
    IF names = <<>> THEN 0 ELSE CountSpaces(Head(names)) + SumSpaces(Tail(names))

\* C8: to_json writes the members in the fixed order (shape, dim_names,
\* permutation; dim_names, permutation, uniform_shape), leaves out absent
\* optional fields, writes the elements in field order with single commas,
\* writes null for an absent uniform_shape entry and {} for the all-absent
\* value, and adds no whitespace: the only blanks of the text are those of
\* the dimension names.
C8_CanonicalEncoding ==
    pc = "encoded"
        => /\ text = <<"{">> \o JoinWith(CanonicalMembers(meta), <<",">>)
                     \o <<"}">>
           /\ kind = "fixed" => fixed_to_json(meta) = fixed_to_json_reserve(meta)
           /\ CountSpaces(text)
                = (IF meta.dim_names.has THEN SumSpaces(meta.dim_names.val)
                   ELSE 0)
           /\ (kind = "variable" /\ meta = EmptyVariable) => text = <<"{", "}">>

C8_Witness ==
    /\ pc = "encoded" /\ kind = "variable"
    /\ meta.dim_names.has /\ meta.permutation.has /\ meta.uniform_shape.has
    /\ Len(meta.uniform_shape.val) = 2
    /\ ~meta.uniform_shape.val[1].has /\ meta.uniform_shape.val[2].has

IsControl(c) == c \in {"\t", "\n", "\r", "\f"}

\* no dimension name holds a quote, a backslash or a control character
NamesNeedNoEscaping(m) ==
    m.dim_names.has =>
        \A i \in 1..Len(m.dim_names.val) :
            \A j \in 1..Len(m.dim_names.val[i]) :
                /\ m.dim_names.val[i][j] \notin {DQ, BS}
                /\ ~IsControl(m.dim_names.val[i][j])

FixedRoundTrip ==
    /\ res.scan.ok /\ res.scan.val = meta
    /\ res.simd.ok /\ res.simd.val = meta

\* C1 as stated, read on the hand-written build: every valid fixed-shape
\* value, whatever its dim_names strings, is returned unchanged by
\* from_json(to_json()).
C1_RoundTripAnyNames ==
    (pc = "decoded" /\ kind = "fixed" /\ res.scan.err # "not run"
     /\ fixed_is_valid(meta))
        => (res.scan.ok /\ res.scan.val = meta)

\* C1 amended: every valid fixed-shape value whose dim_names strings hold no
\* quote, no backslash and no control character is returned unchanged, in
\* shape, dim_names and permutation, by from_json(to_json()) of both builds.
C1_FixedRoundTrip ==
    (pc = "decoded" /\ kind = "fixed" /\ res.scan.err # "not run"
     /\ fixed_is_valid(meta) /\ NamesNeedNoEscaping(meta))
        => FixedRoundTrip

C1_Witness ==
    /\ pc = "decoded" /\ kind = "fixed" /\ res.scan.err # "not run"
    /\ fixed_is_valid(meta)
    /\ meta.dim_names.has /\ meta.dim_names.val = <<<<"x", " ", "y">>, <<>>>>
    /\ meta.permutation.has
    /\ res.scan.val = meta /\ res.simd.val = meta

\* C2 as stated: every valid variable-shape value is returned unchanged by
\* from_json(to_json()).
C2_RoundTripAnyNames ==
    (pc = "decoded" /\ kind = "variable" /\ res.dom.err # "not run"
     /\ variable_is_valid(meta))
        => (res.dom.ok /\ res.dom.val = meta)

\* C2 amended: every valid variable-shape value whose dim_names strings hold
\* no quote, no backslash and no control character (the all-absent value,
\* empty vectors and null uniform_shape entries included) is returned
\* unchanged, in presence and contents of dim_names, permutation and
\* uniform_shape, by from_json(to_json()).
C2_VariableRoundTrip ==
    (pc = "decoded" /\ kind = "variable" /\ res.dom.err # "not run"
     /\ variable_is_valid(meta) /\ NamesNeedNoEscaping(meta))
        => (res.dom.ok /\ res.dom.val = meta)

C2_Witness ==
    /\ pc = "decoded" /\ kind = "variable" /\ res.dom.err # "not run"
    /\ variable_is_valid(meta)
    /\ meta.uniform_shape.has /\ Len(meta.uniform_shape.val) = 2
    /\ ~meta.uniform_shape.val[1].has /\ meta.uniform_shape.val[2].has
    /\ meta.dim_names.has
    /\ res.dom.ok /\ res.dom.val = meta

(***************************************************************************)
(* Properties of the decoders on arbitrary text (SpecText)                 *)
(***************************************************************************)
FixedRan == res.scan.err # "not run"

VariableRan == res.dom.err # "not run"

\* C3: whenever from_json, of either metadata type and either build,
\* returns a value, is_valid() holds on that value.
C3_DecodeReturnsValid ==
    pc = "decoded"
        => /\ res.scan.ok
                => (fixed_is_valid(res.scan.val) /\ FixedWellFormed(res.scan.val))
           /\ res.simd.ok
                => (fixed_is_valid_seen(res.simd.val)
                    /\ FixedWellFormed(res.simd.val))
           /\ res.dom.ok
                => (variable_is_valid(res.dom.val)
                    /\ VariableWellFormed(res.dom.val))

C3_Witness ==
    /\ pc = "decoded" /\ kind = "fixed" /\ base = <<>>
    /\ res.scan.ok /\ res.simd.ok
    /\ text # fixed_to_json(meta)
    /\ res.scan.val # meta

FixedKeys == {Chars("shape"), Chars("dim_names"), Chars("permutation")}

VariableKeys ==
    {Chars("dim_names"), Chars("permutation"), Chars("uniform_shape")}

\* s is a JSON object one of whose keys is not in keys
HasKeyOutside(s, keys) ==
    LET doc == json_parse(s)
    IN  /\ doc.ok
        /\ doc.val.t = "object"
        /\ \E i \in 1..Len(doc.val.v) : doc.val.v[i].key \notin keys

\* C4: from_json of either metadata type fails on every JSON object that
\* holds a key other than the recognized ones.
C4_UnknownKeyRejected ==
    pc = "decoded"
        => /\ (FixedRan /\ HasKeyOutside(text, FixedKeys))
                => (~res.scan.ok /\ ~res.simd.ok)
           /\ (VariableRan /\ HasKeyOutside(text, VariableKeys))
                => ~res.dom.ok

Opener(c) == IF c = "}" THEN "{" ELSE "["

\* the brackets and braces of s outside its strings nest and all close;
\* stack holds the ones that are open
RECURSIVE Nested(_, _, _, _)
Nested(s, i, stack, instr) ==
    IF i > Len(s) THEN stack = <<>>
    ELSE IF s[i] = DQ THEN Nested(s, i + 1, stack, ~instr)
    ELSE IF instr THEN Nested(s, i + 1, stack, instr)
    ELSE IF s[i] \in {"{", "["} THEN Nested(s, i + 1, <<s[i]>> \o stack, instr)
    ELSE IF s[i] \in {"}", "]"}
    THEN /\ stack # <<>>
         /\ Head(stack) = Opener(s[i])
         /\ Nested(s, i + 1, Tail(stack), instr)
    ELSE Nested(s, i + 1, stack, instr)

UnterminatedString(s) == InString(s, Len(s))

\* s is a JSON object without a shape member, or with an empty shape array
NoShape(s) ==
    LET doc == json_parse(s)
    IN  /\ doc.ok
        /\ doc.val.t = "object"
        /\ \A i \in 1..Len(doc.val.v) :
              doc.val.v[i].key = Chars("shape")
                  => (doc.val.v[i].value.t = "array"
                      /\ Len(doc.val.v[i].value.v) = 0)

\* s is complete for the scanner and the fields it holds are not valid
CompleteButInvalid(s) ==
    /\ fixed_from_json_unchecked(s).ok
    /\ ~FixedWellFormed(fixed_from_json_unchecked(s).val)

\* C9: fixed-shape from_json fails on every text with a missing or
\* mismatched bracket or brace, with an unterminated string, without a shape
\* key or with an empty shape array, and on every complete text whose fields
\* fail is_valid(); variable-shape from_json succeeds on an object without
\* keys.
C9_StructuralRejection ==
    pc = "decoded"
        => /\ (FixedRan
               /\ (\/ ~Nested(text, 1, <<>>, FALSE)
                   \/ UnterminatedString(text)
                   \/ NoShape(text)
                   \/ CompleteButInvalid(text)))
                => (~res.scan.ok /\ ~res.simd.ok)
           /\ (VariableRan /\ json_parse(text).ok
               /\ json_parse(text).val.t = "object"
               /\ Len(json_parse(text).val.v) = 0)
                => res.dom.ok

\* C10: when from_json accepted a text, it accepts the text with whitespace
\* added before the opening brace, after the closing brace or between any
\* two tokens, and returns the same value; for both metadata types and both
\* builds.
C10_WhitespaceTolerance ==
    (pc = "decoded" /\ base # <<>>)
        => /\ (FixedRan /\ bres.scan.ok)
                => (res.scan.ok /\ res.scan.val = bres.scan.val)
           /\ (FixedRan /\ bres.simd.ok)
                => (res.simd.ok /\ res.simd.val = bres.simd.val)
           /\ (VariableRan /\ bres.dom.ok)
                => (res.dom.ok /\ res.dom.val = bres.dom.val)

C10_Witness ==
    /\ pc = "decoded" /\ base # <<>>
    /\ FixedRan /\ bres.scan.ok /\ bres.simd.ok
    /\ res.scan.ok /\ res.simd.ok
    /\ Len(res.scan.val.shape) = 2 /\ res.scan.val.dim_names.has
    /\ Len(text) > Len(base) + MaxWsRun


(***************************************************************************)
(* The exception type that leaves from_json (SpecText)                     *)
(***************************************************************************)
\* C11: whenever from_json, of either metadata type and either build, does
\* not return a value, the exception that leaves it is a std::runtime_error.
C11_UniformErrorType ==
    pc = "decoded"
        => /\ (FixedRan /\ ~res.scan.ok) => res.scan.err = "runtime_error"
           /\ (FixedRan /\ ~res.simd.ok) => res.simd.err = "runtime_error"
           /\ (VariableRan /\ ~res.dom.ok) => res.dom.err = "runtime_error"

(***************************************************************************)
(* Properties of init, extract_metadata and the arrays (SpecArray)         *)
(***************************************************************************)
\* the pairs of an optional metadata list, none when it is absent
ListOf(metadata) == IF metadata.has THEN metadata.val ELSE <<>>

IsPrefix(a, b) == Len(a) <= Len(b) /\ \A i \in 1..Len(a) : b[i] = a[i]

InitReturned == tensor.op = "init" /\ tensor.ok

FreshBuilt == tensor.op = "fresh" /\ tensor.ok

\* C12: after init(proxy, m) with valid m the metadata list starts with the
\* entries it had before, unchanged and in order, and is either that list or
\* that list followed by exactly the name entry and then the metadata entry
\* holding m.to_json(); an array built with a name and extra metadata has
\* that name and starts with every pair the caller passed.
C12_InitPreservesEntries ==
    /\ InitReturned =>
          /\ proxy.metadata.has
          /\ IsPrefix(ListOf(tensor.before), proxy.metadata.val)
          /\ \/ proxy.metadata.val = ListOf(tensor.before)
             \/ proxy.metadata.val
                  = ListOf(tensor.before)
                    \o <<metadata_pair("ARROW:extension:name",
                                       EXTENSION_NAME(kind)),
                         metadata_pair("ARROW:extension:metadata",
                                       to_json_of(kind, meta))>>
    /\ FreshBuilt =>
          /\ tensor.name.has => proxy.name = tensor.name
          /\ proxy.metadata.has
          /\ IsPrefix(ListOf(tensor.before), proxy.metadata.val)

\* init appended its two entries behind two entries it found, and a
\* constructor was given a name and a list
C12_Witness ==
    \/ /\ InitReturned
       /\ tensor.build = "scan"
       /\ Len(ListOf(tensor.before)) = 2
       /\ Len(proxy.metadata.val) = 4
    \/ /\ FreshBuilt
       /\ tensor.name.has
       /\ Len(ListOf(tensor.before)) = 2
       /\ Len(proxy.metadata.val) = 4

\* C13: when the list already holds the name entry of the extension, init
\* leaves the list as it was and does not encode m; hence a second init
\* leaves the list the first one left.
C13_InitIdempotent ==
    InitReturned =>
        /\ has_extension_name(ListOf(tensor.before), kind) =>
              /\ proxy.metadata.val = ListOf(tensor.before)
              /\ tensor.encodes = 0
        /\ tensor.calls = 2 =>
              /\ proxy.metadata = tensor.first
              /\ tensor.encodes = 0

\* init ran twice on a list that was not tagged at first
C13_Witness ==
    /\ InitReturned
    /\ tensor.calls = 2
    /\ tensor.build = "simd"
    /\ has_extension_name(tensor.first.val, kind)
    /\ Len(tensor.first.val) = 3

\* how many pairs of the list have that key
Occurrences(list, key) ==
    Cardinality({i \in 1..Len(list) : list[i].first = key})

\* C14: after init, and after a construction from values with any extra
\* metadata of the caller, the keys ARROW:extension:name and
\* ARROW:extension:metadata each occur exactly once in the metadata list.
C14_ReservedKeysOnce ==
    (InitReturned \/ FreshBuilt) =>
        /\ Occurrences(ListOf(proxy.metadata), "ARROW:extension:name") = 1
        /\ Occurrences(ListOf(proxy.metadata), "ARROW:extension:metadata") = 1

\* the proxy at hand has no key/value metadata, or none with the key
\* ARROW:extension:metadata
MissingExtensionMetadata ==
    /\ proxy # NoProxy
    /\ Occurrences(ListOf(proxy.metadata), "ARROW:extension:metadata") = 0

\* C15: on a proxy without key/value metadata or without an
\* ARROW:extension:metadata entry, the fixed-shape extract_metadata throws
\* std::runtime_error, the variable-shape one returns the metadata with all
\* three fields absent, which is valid, and the variable-shape
\* reconstruction from that proxy gives an array with that metadata.
C15_MissingExtensionMetadata ==
    MissingExtensionMetadata =>
        /\ (tensor.op = "extract" /\ kind = "fixed") =>
              ~tensor.ok /\ tensor.err = "runtime_error"
        /\ (tensor.op = "extract" /\ kind = "variable") =>
              /\ tensor.ok
              /\ tensor.val = EmptyVariable
              /\ variable_is_valid(tensor.val)
        /\ (tensor.op = "reconstruct" /\ kind = "variable") =>
              /\ tensor.ok
              /\ tensor.m_metadata = EmptyVariable

\* extract_metadata ran on a variable-shape proxy whose list has entries but
\* not the metadata one
C15_Witness ==
    /\ MissingExtensionMetadata
    /\ tensor.op = "extract"
    /\ kind = "variable"
    /\ tensor.ok
    /\ Len(ListOf(proxy.metadata)) = 2

FixedFresh == tensor.op = "fresh" /\ kind = "fixed"

\* the flattened values do not fill a whole number of lists of the declared
\* size
NotMultiple ==
    IF tensor.declared = 0 THEN tensor.count # 0
    ELSE tensor.count % tensor.declared # 0

\* C16: no constructor of fixed_shape_tensor_array from values returns an
\* array when the metadata is invalid, when list_size differs from
\* compute_size(), or when the number of flattened values is not a multiple
\* of list_size.
C16_ConstructionEnforced ==
    FixedFresh =>
        /\ ~fixed_is_valid(meta) => ~tensor.ok
        /\ tensor.declared # compute_size(meta) => ~tensor.ok
        /\ NotMultiple => ~tensor.ok

\* a fixed-shape array left a constructor, from values or from a proxy
FixedArrayExists ==
    /\ kind = "fixed"
    /\ tensor.op \in {"fresh", "reconstruct"}
    /\ tensor.ok

\* C17: for every fixed_shape_tensor_array that was constructed, from values
\* or from an arrow proxy, the list size of its storage equals
\* get_metadata().compute_size() and get_metadata().is_valid() holds.
C17_FixedArrayInvariant ==
    FixedArrayExists =>
        /\ proxy.storage.list_size = compute_size(get_metadata(tensor))
        /\ fixed_is_valid(get_metadata(tensor))

\* the metadata is valid, the declared list size is its compute_size() and
\* the flattened values fill a whole number of lists
WholeTensors ==
    /\ FixedFresh
    /\ fixed_is_valid(meta)
    /\ tensor.declared = compute_size(meta)
    /\ tensor.count % compute_size(meta) = 0

\* C18: a fixed_shape_tensor_array built from N * compute_size() flattened
\* values with valid metadata m and list_size = compute_size() reports
\* size() = N, shape() = m.shape (not permuted) and get_metadata() equal to m
\* field by field; the constructors that read nothing undefined do build it.
C18_SizeShapeConsistency ==
    WholeTensors =>
        /\ tensor.build # "scan" => tensor.ok
        /\ tensor.ok =>
              /\ size(TheArray) * compute_size(meta) = tensor.count
              /\ shape(TheArray) = meta.shape
              /\ get_metadata(TheArray).shape = meta.shape
              /\ get_metadata(TheArray).dim_names = meta.dim_names
              /\ get_metadata(TheArray).permutation = meta.permutation

\* two tensors of a permuted shape were built
C18_Witness ==
    /\ WholeTensors
    /\ tensor.ok
    /\ meta.permutation.has
    /\ meta.shape = <<1, 2>>
    /\ size(TheArray) = 2

\* a variable-shape array left a constructor, from values or from a proxy
VariableArrayExists ==
    /\ kind = "variable"
    /\ tensor.op \in {"fresh", "reconstruct"}
    /\ tensor.ok

\* C20: for every variable_shape_tensor_array that was constructed, the list
\* width of its shape field equals the ndim the caller declared (when built
\* from values), and whenever get_metadata().get_ndim() is known it equals
\* that width.
C20_VariableRankInvariant ==
    VariableArrayExists =>
        /\ tensor.op = "fresh" => proxy.storage.width = tensor.declared
        /\ get_ndim(get_metadata(tensor)).has =>
              get_ndim(get_metadata(tensor)).val = proxy.storage.width

C23_NdimDelegates ==
    VariableArrayExists =>
        /\ variable_ndim(TheArray) = get_ndim(get_metadata(TheArray))
        /\ get_metadata(TheArray) = EmptyVariable => ~variable_ndim(TheArray).has
        /\ (tensor.op = "fresh" /\ variable_ndim(TheArray).has) =>
              variable_ndim(TheArray).val = tensor.declared

\* an array was built from values with metadata that fixes the rank at 2
C23_Witness ==
    /\ VariableArrayExists
    /\ tensor.op = "fresh"
    /\ variable_ndim(TheArray) = Some(2)
    /\ tensor.declared = 2

\* C24: for every fixed-shape metadata value with is_valid(), compute_size()
\* is the product of the shape entries in signed 64-bit arithmetic and is
\* > 0: no valid shape makes the product overflow, wrap to zero or to a
\* negative number.
C24_ComputeSizePositive ==
    (chk.op = "compute_size" /\ chk.valid) =>
        /\ ~chk.overflow
        /\ chk.ok
        /\ IsPositive(chk.val)

\* the encoding of the metadata value of the state
Encoded == IF kind = "fixed" THEN fixed_to_json(meta) ELSE variable_to_json(meta)

\* the text is the encoding with that sign put at the start of the array
\* element that begins behind position i
SignedAt(sign, i) ==
    /\ i < Len(Encoded)
    /\ Encoded[i] \in {"[", ","}
    /\ text = Insert(Encoded, i, <<sign>>)

\* the array element that begins behind position i is the integer zero
ZeroAt(i) ==
    /\ Encoded[i + 1] = "0"
    /\ ~IsDigit(Encoded[i + 2])

\* both decodings gave the same: a failure, or the same value
SameDecoding(a, b) == a.ok = b.ok /\ (a.ok => a.val = b.val)

\* C25: in from_json of either build and metadata type, an integer element
\* written with a leading '+' decodes as the digits alone do, one written
\* with a leading '-' decodes to the negated value (which only zero
\* survives validation with), and a sign followed by no digit fails.
C25_SignedIntegers ==
    pc = "decoded" =>
        \A i \in 1..Len(Encoded) :
            /\ (SignedAt("+", i) /\ IsDigit(Encoded[i + 1])) =>
                  /\ (FixedRan /\ kind = "fixed") =>
                        /\ SameDecoding(res.scan, fixed_from_json(Encoded))
                        /\ SameDecoding(res.simd, fixed_from_json_simd(Encoded))
                  /\ (VariableRan /\ kind = "variable") =>
                        SameDecoding(res.dom, variable_from_json(Encoded))
            /\ (SignedAt("-", i) /\ IsDigit(Encoded[i + 1])) =>
                  /\ (FixedRan /\ kind = "fixed") =>
                        IF ZeroAt(i)
                        THEN /\ SameDecoding(res.scan, fixed_from_json(Encoded))
                             /\ SameDecoding(res.simd,
                                             fixed_from_json_simd(Encoded))
                        ELSE ~res.scan.ok /\ ~res.simd.ok
                  /\ (VariableRan /\ kind = "variable") =>
                        IF ZeroAt(i)
                        THEN SameDecoding(res.dom, variable_from_json(Encoded))
                        ELSE ~res.dom.ok
            /\ (\E sign \in {"+", "-"} : SignedAt(sign, i)
                /\ Encoded[i + 1] \in {"]", "n"}) =>
                  /\ (FixedRan /\ kind = "fixed") => ~res.scan.ok /\ ~res.simd.ok
                  /\ (VariableRan /\ kind = "variable") => ~res.dom.ok

(***************************************************************************)
(* Properties of the scanner taken step by step (SpecScan)                 *)
(***************************************************************************)
\* the loops of one statement, and the points from which while (true)
\* loops go round again
InnerLoops == {"ws", "rs2", "ri2"}

BackEdges == {"ia5", "sa5", "obj5"}

LoopHeads == {"ia3", "sa3", "obj"}

\* the step from chk to chk' never moves the cursor back; an iteration of a
\* whitespace, string or digit loop that stays in the loop, and an
\* iteration of an array or object loop that goes round again, leave the
\* cursor strictly further than the iteration found it
IterationAdvances ==
    /\ chk'.pos >= chk.pos
    /\ (/\ TopPt(chk) \in InnerLoops
        /\ Len(chk'.stack) = Len(chk.stack)
        /\ TopPt(chk') = TopPt(chk)) => chk'.pos > chk.pos
    /\ (TopPt(chk) \in BackEdges /\ TopPt(chk') \in LoopHeads)
          => chk'.stack[Len(chk.stack)].head > chk.stack[Len(chk.stack)].head

\* C26: on every input text the hand-written from_json terminates, either
\* returning a value or failing, and every iteration of its object loop,
\* array loops and string, whitespace and digit loops either strictly
\* advances the cursor or leaves the loop
C26_ScannerTerminates ==
    /\ [][pc = "scanning" => IterationAdvances]_vars
    /\ (pc = "scanning") ~> (pc = "done" /\ chk.outcome # "running")

\* a padded text of three members was scanned to the end and returned
C26_Witness ==
    /\ pc = "done"
    /\ chk.outcome = "returned"
    /\ chk.result.permutation = Some(<<1, 0>>)
    /\ Len(text) > Len(fixed_to_json(meta))
    /\ chk.pos = Len(text) + 1

\* extract_metadata of the build that constructed the array, applied to the
\* array's own proxy, returned the array's metadata
ExtractAgrees ==
    /\ (kind = "fixed" /\ tensor.build \in {"scan", "validity"}) =>
          fixed_extract_metadata(proxy) = Returned(tensor.m_metadata)
    /\ (kind = "fixed" /\ tensor.build \in {"simd", "named", "validity"}) =>
          fixed_extract_metadata_simd(proxy) = Returned(tensor.m_metadata)
    /\ kind = "variable" =>
          variable_extract_metadata(proxy) = Returned(tensor.m_metadata)

\* C27: after any construction from values of either tensor array type,
\* with any name and any extra key/value metadata of the caller,
\* extract_metadata(get_arrow_proxy()) succeeds and equals get_metadata().
C27_SideChannelAgrees == FreshBuilt => ExtractAgrees

(***************************************************************************)
(* Whole-input acceptance of the hand-written scanner (SpecText)           *)
(***************************************************************************)
\* the text is one well-formed JSON object between optional whitespace, no
\* key of which is repeated
OneJsonObject(s) ==
    LET distinct(members) ==
            \A i, j \in 1..Len(members) :
                members[i].key = members[j].key => i = j
        object(d) == d.ok /\ d.val.t = "object" /\ distinct(d.val.v)
    IN  object(json_parse(s))

\* C28: the hand-written fixed-shape from_json succeeds only on texts that
\* are exactly one well-formed JSON object optionally surrounded by
\* whitespace: text after the closing brace, a comma directly before the
\* closing brace or a repeated key makes it fail.
C28_WholeInputAcceptance ==
    (kind = "fixed" /\ res.scan.ok) => OneJsonObject(text)

(***************************************************************************)
(* Narrowing of uniform_shape entries (SpecNarrow)                         *)
(***************************************************************************)
\* the text was decoded
NarrowDecoded == chk.op = "write" /\ pc = "decoded"

\* entry i of the returned uniform_shape is the number written as entry i
SameNumber(i) ==
    LET written == chk.entries[i]
        returned == res.dom.val.uniform_shape.val[i]
    IN  IF written.null THEN ~returned.has
        ELSE /\ returned.has
             /\ to_string(returned.val) = entry_text(written)

\* C29: for every text given to the variable-shape from_json, each
\* non-null uniform_shape entry of the returned value equals the integer
\* written in the text, or from_json fails: an integer outside the signed
\* 32-bit range is never wrapped into another value that passes validation.
C29_NoSilentNarrowing ==
    (NarrowDecoded /\ res.dom.ok) =>
        /\ res.dom.val.uniform_shape.has
        /\ Len(res.dom.val.uniform_shape.val) = Len(chk.entries)
        /\ \A i \in 1..Len(chk.entries) : SameNumber(i)

(***************************************************************************)
(* The two permutation checks (SpecValid)                                  *)
(***************************************************************************)
\* both builds of the fixed-shape is_valid were applied to meta
BothChecked == chk.op = "is_valid" /\ kind = "fixed"

\* C30: on every fixed-shape metadata value, permutations with negative,
\* duplicate or too large entries included, the sort-based is_valid and the
\* seen-marker is_valid return the same result, and the seen-marker one
\* indexes its marker only with values within 0..N-1.
C30_PermutationChecksAgree ==
    BothChecked =>
        /\ chk.valid = chk.valid_seen
        /\ \A idx \in chk.indexed :
              idx >= 0 /\ idx < Len(meta.permutation.val)

\* a permutation with a duplicate: both checks refuse it and the marker was
\* read for the duplicated value only
C30_Witness ==
    /\ BothChecked
    /\ meta.shape = <<1, 1>>
    /\ ~meta.dim_names.has
    /\ meta.permutation = Some(<<1, 1>>)
    /\ ~chk.valid
    /\ ~chk.valid_seen
    /\ chk.indexed = {1}
==========================================================================
